---- MODULE Spec2Model ----
(***************************************************************************)
(* Stash-Jellyfin proxy: the playback session tracker, the                 *)
(* authentication gate, the backend query, the statistics file, the        *)
(* listings and the saved filters of src/stash_jellyfin_proxy.py as state  *)
(* machines.                                                               *)
(*                                                                         *)
(* Python dicts are functions with a partial domain (k in d is             *)
(* k \in DOMAIN d), Python lists are sequences, time.time() is the         *)
(* variable clock, counted from the Unix epoch: in whole seconds, except   *)
(* in the runs of the gate, where it counts ticks of half a second.        *)
(* The proxy serves all requests on one asyncio event loop: a handler      *)
(* runs without interruption between two awaits, so every action below is  *)
(* the code between two awaits of one handler.                             *)
(***************************************************************************)
EXTENDS Integers, Sequences, FiniteSets, Bags, TLC

\* ------------------------------------------------------------------------
\* Program constants
\* ------------------------------------------------------------------------
STREAM_RESUME_THRESHOLD == 90
RECENTLY_STOPPED_GRACE == 5
PLAY_COOLDOWN_BUFFER == 1800
STREAM_COUNT_COOLDOWN == 1800
STREAM_START_GAP == 300
\* STREAM_START_THRESHOLD = 0.05, kept as a percentage
STREAM_START_THRESHOLD_PCT == 5
\* maybe_save_stats: seconds between two debounced writes
STATS_SAVE_INTERVAL == 60
\* ui_api_streams: seconds after which a stream is no longer listed
UI_STREAM_WINDOW == 300
SECONDS_PER_DAY == 86400

\* ------------------------------------------------------------------------
\* Bounds of the model
\* ------------------------------------------------------------------------
\* every instant of the time line is a mark plus 0..Jitter seconds
Jitter == 0
\* number of request handlers that can be in flight at once
MaxHandlers == 2
\* number of stream requests the proxy serves in one run
MaxRequests == 2
\* number of calls made in a run that exercises one function alone
MaxCalls == 3

\* ------------------------------------------------------------------------
\* Input sets
\* ------------------------------------------------------------------------
\* the process starts on some day long after the epoch (time.time() is large)
StartTime == SECONDS_PER_DAY * 19000
VideoDuration == 60
VideoSize == 1000000
\* offsets from StartTime at which something happens: every threshold of the
\* tracker is met exactly by one pair of these instants and missed by another
Marks == {0, RECENTLY_STOPPED_GRACE, STREAM_START_GAP, STREAM_COUNT_COOLDOWN}
Instants == {StartTime + m + j : m \in Marks, j \in 0..Jitter}
\* the time line of the runs that exercise one function alone: one second more
\* after every mark, and the end of the play cooldown of a video
FineInstants ==
    {StartTime + m + j : m \in Marks \cup {VideoDuration + PLAY_COOLDOWN_BUFFER},
                         j \in 0..1}

SceneIds == {"scene-1", "scene-2"}
\* scene_id when the path holds no /scene-<n>/ part; ItemId default of a stop body
UnknownId == "unknown"
ItemIds == SceneIds \cup {UnknownId}
ClientIps == {"10.0.0.1", "10.0.0.2"}
ClientTypes == {"Infuse", "VLC"}
\* the clients that send stream requests: (client_ip, client_type), the type
\* being the label parsed from the User-Agent header
Clients == {<<"10.0.0.1", "Infuse">>, <<"10.0.0.1", "VLC">>, <<"10.0.0.2", "Infuse">>}
\* byte offsets of the Range header of a stream request: the start of the file
\* and just above 5% of it
BytePositions == {0, 50001}
\* response statuses seen by send_wrapper (0: no response start was sent)
Statuses == {0, 206, 504}
SJS_USER == "user"

\* ------------------------------------------------------------------------
\* dict helpers
\* ------------------------------------------------------------------------
EmptyDict == [k \in {} |-> 0]
Put(d, k, v) == [x \in (DOMAIN d) \cup {k} |-> IF x = k THEN v ELSE d[x]]
Del(d, k) == [x \in (DOMAIN d) \ {k} |-> d[x]]
\* time.strftime("%Y-%m-%d"): the calendar day of an instant, as a day number
DateOf(t) == t \div SECONDS_PER_DAY
\* streams_today_date = "": no date yet
NoDate == -1

VARIABLES
    clock,              \* time.time()
    in_flight,          \* bag of the stream requests whose handler awaits the app
    served,             \* number of stream requests that have arrived
    log_event,          \* kinds of the lines the last tracker step logged
    counted_at,         \* history: (scene_id, client_ip) -> time of its last
                        \* request classified as a new stream
    active_streams,     \* _active_streams: scene_id -> entry
    client_streams,     \* _client_streams: client_key -> scene_id
    recently_stopped,   \* _recently_stopped: scene_id -> stop time
    play_cooldowns,     \* _play_cooldowns: (scene_id, client_ip) -> record
    stream_positions,   \* _stream_positions: (scene_id, client_ip) -> record
    proxy_stats,        \* _proxy_stats
    stats_dirty,        \* _stats_dirty
    stats_last_save,    \* _stats_last_save
    stats_file,         \* STATS_FILE: whether it exists, and the stats it holds
    calls,              \* number of calls made in a run that exercises a function
    ret,                \* what the last such call returned
    ip_failures,        \* _ip_failures: client_ip -> list of (timestamp, path)
    BANNED_IPS,         \* BANNED_IPS: set of banned addresses
    config_file,        \* CONFIG_FILE: whether it exists, and its BANNED_IPS line
    failure_log         \* history: client_ip -> times of all its counted failures

\* the tables of the tracker and the statistics
tables ==
    <<active_streams, client_streams, recently_stopped, play_cooldowns,
      stream_positions, proxy_stats, stats_dirty, stats_last_save, stats_file>>

fn_vars == <<calls, ret>>

auth_vars == <<ip_failures, BANNED_IPS, config_file, failure_log>>

vars == <<clock, in_flight, served, log_event, counted_at, tables, fn_vars, auth_vars>>

\* The tracker's module-level state as one value, for the functions below:
\* each takes the state it starts from and yields the state it leaves.
Tracker ==
    [active_streams |-> active_streams, client_streams |-> client_streams,
     recently_stopped |-> recently_stopped, play_cooldowns |-> play_cooldowns,
     stream_positions |-> stream_positions, proxy_stats |-> proxy_stats,
     stats_dirty |-> stats_dirty, stats_last_save |-> stats_last_save,
     stats_file |-> stats_file]

\* ------------------------------------------------------------------------
\* Backend: get_scene_info
\* ------------------------------------------------------------------------
\* what get_scene_info yields when the query fails or finds no scene
FallbackInfo(scene_id) ==
    [title |-> scene_id, performer |-> "", duration |-> 0, file_size |-> 0]
\* the results get_scene_info can yield for a scene: its record in the backend,
\* or the fallback when the query fails
SceneInfos(scene_id) ==
    IF scene_id \in SceneIds
    THEN {[title |-> "Title A", performer |-> "Ann +1", duration |-> VideoDuration,
           file_size |-> VideoSize],
          FallbackInfo(scene_id)}
    ELSE {FallbackInfo(scene_id)}

\* ------------------------------------------------------------------------
\* Statistics
\* ------------------------------------------------------------------------
InitStats ==
    [total_streams |-> 0, streams_today |-> 0, streams_today_date |-> NoDate,
     unique_ips_today |-> <<>>, auth_success |-> 0, auth_failed |-> 0,
     play_counts |-> EmptyDict]

\* variant: a failed write counts as a write
save_proxy_stats_StampsFailure(S, now, ok) ==
    IF ok
    THEN [S EXCEPT !.stats_file = [exists |-> TRUE, stats |-> S.proxy_stats], !.stats_dirty = FALSE, !.stats_last_save = now]
    ELSE [S EXCEPT !.stats_dirty = FALSE, !.stats_last_save = now]

\* save_proxy_stats; ok: whether opening and writing the file succeeds
save_proxy_stats(S, now, ok) ==
    IF ok
    THEN [S EXCEPT !.stats_file = [exists |-> TRUE, stats |-> S.proxy_stats],
                   !.stats_dirty = FALSE,
                   !.stats_last_save = now]
    ELSE S

maybe_save_stats(S, now, ok) ==
    IF S.stats_dirty /\ (now - S.stats_last_save) > STATS_SAVE_INTERVAL
    THEN save_proxy_stats(S, now, ok)
    ELSE S

\* variant: the counters of the day are carried into the next day
reset_daily_stats_if_needed_Carried(stats, now) == stats

reset_daily_stats_if_needed(stats, now) ==
    IF stats.streams_today_date # DateOf(now)
    THEN [stats EXCEPT !.streams_today = 0, !.streams_today_date = DateOf(now),
                       !.unique_ips_today = <<>>]
    ELSE stats

InList(x, list) == \E i \in 1..Len(list) : list[i] = x

\* ------------------------------------------------------------------------
\* should_count_as_new_stream
\* ------------------------------------------------------------------------
\* variant: an offset of exactly 5% of the file is taken as past the start
AboveStartThreshold_AtThreshold(byte_position, file_size) ==
    byte_position * 100 >= STREAM_START_THRESHOLD_PCT * file_size

\* byte_position / file_size > STREAM_START_THRESHOLD, for file_size > 0
AboveStartThreshold(byte_position, file_size) ==
    byte_position * 100 > STREAM_START_THRESHOLD_PCT * file_size

\* variant: a request of unknown size wipes the size recorded for the key
RecordedFileSize_Forgotten(file_size, last_info) == file_size

\* file_size or last_info["file_size"] (lines 1834, 1843)
RecordedFileSize(file_size, last_info) == IF file_size # 0 THEN file_size ELSE last_info.file_size

\* variant: offset 0 is the start of a file of unknown size too
SeekToStart_AnySize(byte_position, effective_file_size, elapsed) ==
    /\ IF effective_file_size > 0 THEN ~AboveStartThreshold(byte_position, effective_file_size) ELSE byte_position = 0
    /\ elapsed >= STREAM_START_GAP

\* lines 1843-1850: a seek to the start of a file of known size, after a gap
SeekToStart(byte_position, effective_file_size, elapsed) ==
    /\ effective_file_size > 0
    /\ ~AboveStartThreshold(byte_position, effective_file_size)
    /\ elapsed >= STREAM_START_GAP

\* variant: the first observation of a key is classified but not recorded
should_count_as_new_stream_Unrecorded(positions, scene_id, client_ip, byte_position, file_size, now) ==
    IF file_size > 0
    THEN IF AboveStartThreshold(byte_position, file_size)
         THEN [count |-> FALSE, trailing |-> TRUE, positions |-> positions]
         ELSE [count |-> TRUE, trailing |-> FALSE, positions |-> positions]
    ELSE IF byte_position > 0
         THEN [count |-> FALSE, trailing |-> TRUE, positions |-> positions]
         ELSE [count |-> TRUE, trailing |-> FALSE, positions |-> positions]

\* yields the tuple (should_count, is_trailing_after_restart) and the table
\* _stream_positions as the call leaves it
should_count_as_new_stream(positions, scene_id, client_ip, byte_position, file_size, now) ==
    LET position_key == <<scene_id, client_ip>> IN
    IF position_key \notin DOMAIN positions
    THEN LET recorded ==
                 Put(positions, position_key,
                     [last_position |-> byte_position, last_time |-> now,
                      file_size |-> file_size])
         IN  IF file_size > 0
             THEN IF AboveStartThreshold(byte_position, file_size)
                  THEN [count |-> FALSE, trailing |-> TRUE, positions |-> recorded]
                  ELSE [count |-> TRUE, trailing |-> FALSE, positions |-> recorded]
             ELSE IF byte_position > 0
                  THEN [count |-> FALSE, trailing |-> TRUE, positions |-> recorded]
                  ELSE [count |-> TRUE, trailing |-> FALSE, positions |-> recorded]
    ELSE LET last_info == positions[position_key]
             elapsed == now - last_info.last_time
             effective_file_size == RecordedFileSize(file_size, last_info)
             recorded ==
                 Put(positions, position_key,
                     [last_position |-> byte_position, last_time |-> now,
                      file_size |-> effective_file_size])
         IN  IF elapsed >= STREAM_COUNT_COOLDOWN
             THEN [count |-> TRUE, trailing |-> FALSE, positions |-> recorded]
             ELSE IF SeekToStart(byte_position, effective_file_size, elapsed)
                  THEN [count |-> TRUE, trailing |-> FALSE, positions |-> recorded]
                  ELSE [count |-> FALSE, trailing |-> FALSE, positions |-> recorded]

\* ------------------------------------------------------------------------
\* record_play_count
\* ------------------------------------------------------------------------
\* variant: a play at the very end of the cooldown is still inside it
InPlayCooldown_Inclusive(cooldowns, cooldown_key, now) ==
    /\ cooldown_key \in DOMAIN cooldowns
    /\ now - cooldowns[cooldown_key].timestamp <= cooldowns[cooldown_key].cooldown_seconds

\* lines 1883-1888: the last counted play of the key is less than its stored
\* cooldown ago
InPlayCooldown(cooldowns, cooldown_key, now) ==
    /\ cooldown_key \in DOMAIN cooldowns
    /\ now - cooldowns[cooldown_key].timestamp < cooldowns[cooldown_key].cooldown_seconds

\* variant: a suppressed attempt restarts the cooldown
record_play_count_Extends(S, scene_id, title, performer, client_ip, duration, now, ok) ==
    LET cooldown_key == <<scene_id, client_ip>>
        cooldown_seconds == (IF duration > 0 THEN duration ELSE 0) + PLAY_COOLDOWN_BUFFER
        old_count == IF scene_id \in DOMAIN S.proxy_stats.play_counts THEN S.proxy_stats.play_counts[scene_id].count ELSE 0
        stamped == [S EXCEPT !.play_cooldowns = Put(@, cooldown_key, [timestamp |-> now, cooldown_seconds |-> cooldown_seconds])]
        counted == [stamped EXCEPT !.proxy_stats.play_counts = Put(@, scene_id, [count |-> old_count + 1, title |-> title, performer |-> performer, last_played |-> now])]
    IN  maybe_save_stats([(IF InPlayCooldown(S.play_cooldowns, cooldown_key, now) THEN stamped ELSE counted) EXCEPT !.stats_dirty = TRUE], now, ok)

record_play_count(S, scene_id, title, performer, client_ip, duration, now, ok) ==
    LET safe_duration == IF duration > 0 THEN duration ELSE 0
        cooldown_key == <<scene_id, client_ip>>
        cooldown_seconds == safe_duration + PLAY_COOLDOWN_BUFFER
        should_count_play == ~InPlayCooldown(S.play_cooldowns, cooldown_key, now)
        old_count ==
            IF scene_id \in DOMAIN S.proxy_stats.play_counts
            THEN S.proxy_stats.play_counts[scene_id].count
            ELSE 0
        counted ==
            [S EXCEPT
               !.play_cooldowns =
                   Put(@, cooldown_key,
                       [timestamp |-> now, cooldown_seconds |-> cooldown_seconds]),
               !.proxy_stats.play_counts =
                   Put(@, scene_id,
                       [count |-> old_count + 1, title |-> title,
                        performer |-> performer, last_played |-> now])]
        S1 == IF should_count_play THEN counted ELSE S
    IN  maybe_save_stats([S1 EXCEPT !.stats_dirty = TRUE], now, ok)

\* ------------------------------------------------------------------------
\* mark_stream_stopped, cancel_client_streams
\* ------------------------------------------------------------------------
\* variant: the owner's mapping is left behind
mark_stream_stopped_KeepsOwner(S, scene_id, from_stop_notification, now) ==
    LET S1 == IF scene_id \in DOMAIN S.active_streams
              THEN [S EXCEPT !.active_streams = Del(@, scene_id)]
              ELSE S
        marked == Put(S1.recently_stopped, scene_id, now)
        expired == {k \in DOMAIN marked : now - marked[k] > RECENTLY_STOPPED_GRACE * 2}
    IN  IF from_stop_notification
        THEN [S1 EXCEPT !.recently_stopped =
                            [k \in (DOMAIN marked) \ expired |-> marked[k]]]
        ELSE S1

mark_stream_stopped(S, scene_id, from_stop_notification, now) ==
    LET S1 ==
            IF scene_id \in DOMAIN S.active_streams
            THEN LET client_key == S.active_streams[scene_id].client_key IN
                 [S EXCEPT
                    !.client_streams =
                        IF client_key \in DOMAIN @ /\ @[client_key] = scene_id
                        THEN Del(@, client_key)
                        ELSE @,
                    !.active_streams = Del(@, scene_id)]
            ELSE S
        marked == Put(S1.recently_stopped, scene_id, now)
        expired == {k \in DOMAIN marked : now - marked[k] > RECENTLY_STOPPED_GRACE * 2}
    IN  IF from_stop_notification
        THEN [S1 EXCEPT !.recently_stopped =
                            [k \in (DOMAIN marked) \ expired |-> marked[k]]]
        ELSE S1

cancel_client_streams(S, client_key, new_scene_id) ==
    IF client_key \in DOMAIN S.client_streams
         /\ S.client_streams[client_key] # new_scene_id
    THEN LET current_scene == S.client_streams[client_key] IN
         [S EXCEPT
            !.active_streams =
                IF current_scene \in DOMAIN @ THEN Del(@, current_scene) ELSE @,
            !.client_streams = Del(@, client_key)]
    ELSE S

\* ------------------------------------------------------------------------
\* RequestLoggingMiddleware.__call__: the stream accounting that follows the
\* await of the wrapped application (no await inside: one atomic step)
\* ------------------------------------------------------------------------
NewEntry(now, info, client_ip, client_type, file_size) ==
    [last_seen |-> now, started |-> now, title |-> info.title,
     performer |-> info.performer, user |-> SJS_USER, client_ip |-> client_ip,
     client_type |-> client_type, client_key |-> <<client_ip, client_type>>,
     file_size |-> file_size]

\* variant: the client IP is appended to today's list on every counted stream
CountStream_AppendsAlways(S, client_ip, now, ok) ==
    LET reset == reset_daily_stats_if_needed(S.proxy_stats, now)
        counted == [reset EXCEPT !.total_streams = @ + 1, !.streams_today = @ + 1, !.unique_ips_today = Append(@, client_ip)]
    IN  maybe_save_stats([S EXCEPT !.proxy_stats = counted, !.stats_dirty = TRUE], now, ok)

\* lines 2387-2396: the stream counters of a request classified as a new stream
CountStream(S, client_ip, now, ok) ==
    LET reset == reset_daily_stats_if_needed(S.proxy_stats, now)
        counted ==
            [reset EXCEPT
               !.total_streams = @ + 1,
               !.streams_today = @ + 1,
               !.unique_ips_today =
                   IF InList(client_ip, @) THEN @ ELSE Append(@, client_ip)]
    IN  maybe_save_stats([S EXCEPT !.proxy_stats = counted, !.stats_dirty = TRUE],
                         now, ok)

\* variant: an entry last seen exactly 30 minutes ago has not expired
IsExpired_Strict(entry, now) == (now - entry.last_seen) > STREAM_COUNT_COOLDOWN

\* line 2399: the tracked entry was last seen 30 minutes ago or more
IsExpired(entry, now) == (now - entry.last_seen) >= STREAM_COUNT_COOLDOWN

\* variant: the comparison with the grace window is reversed
IsRecentlyStopped_Reversed(S, scene_id, now) ==
    /\ scene_id \in DOMAIN S.recently_stopped
    /\ (now - S.recently_stopped[scene_id]) > RECENTLY_STOPPED_GRACE

\* lines 2407-2408: a stop notification for the scene came less than 5 s ago
IsRecentlyStopped(S, scene_id, now) ==
    /\ scene_id \in DOMAIN S.recently_stopped
    /\ (now - S.recently_stopped[scene_id]) < RECENTLY_STOPPED_GRACE

\* lines 2428-2456: a new stream for this scene
StartStream(S, scene_id, client_ip, client_type, now, info, ok) ==
    LET client_key == <<client_ip, client_type>>
        S1 == cancel_client_streams(S, client_key, scene_id)
        S2 == [S1 EXCEPT
                 !.recently_stopped =
                     IF scene_id \in DOMAIN @ THEN Del(@, scene_id) ELSE @,
                 !.active_streams =
                     Put(@, scene_id,
                         NewEntry(now, info, client_ip, client_type, info.file_size)),
                 !.client_streams = Put(@, client_key, scene_id)]
    IN  record_play_count(S2, scene_id, info.title, info.performer, client_ip,
                          info.duration, now, ok)

\* line 2031: cancel_client_streams logs the cancellation of a tracked stream
LogsCancelled(S, client_key, new_scene_id) ==
    /\ client_key \in DOMAIN S.client_streams
    /\ S.client_streams[client_key] # new_scene_id
    /\ S.client_streams[client_key] \in DOMAIN S.active_streams

\* variant: the entry made for a trailing request after a restart counts as a play
ResumeAfterRestart_Played(S, scene_id, client_ip, client_type, now, info, cached_file_size) ==
    record_play_count([S EXCEPT !.active_streams = Put(@, scene_id, NewEntry(now, info, client_ip, client_type, cached_file_size)),
                                !.client_streams = Put(@, <<client_ip, client_type>>, scene_id)],
                      scene_id, info.title, info.performer, client_ip, info.duration, now, TRUE)

\* lines 2411-2427: a trailing request after a restart
ResumeAfterRestart(S, scene_id, client_ip, client_type, now, info, cached_file_size) ==
    [S EXCEPT
       !.active_streams =
           Put(@, scene_id,
               NewEntry(now, info, client_ip, client_type, cached_file_size)),
       !.client_streams = Put(@, <<client_ip, client_type>>, scene_id)]

\* variant: the expiry of an entry is recorded like a stop notification
ExpireStream_Marked(S, scene_id, now) == mark_stream_stopped(S, scene_id, TRUE, now)

\* lines 2399-2403: the expired entry is cleared, stream_info becomes None
ExpireStream(S, scene_id, now) == mark_stream_stopped(S, scene_id, FALSE, now)

\* variant: a request for a tracked scene starts its entry anew
TouchStream_Restarted(S, scene_id, now) == [S EXCEPT !.active_streams[scene_id].last_seen = now, !.active_streams[scene_id].started = now]

\* lines 2460 and 2464: stream_info["last_seen"] = now
TouchStream(S, scene_id, now) == [S EXCEPT !.active_streams[scene_id].last_seen = now]

\* lines 2373-2465. info1, info2: the results of the two get_scene_info calls
\* (the first is made only when no file size is cached); ok1, ok2: whether a
\* write of the statistics file succeeds. Yields the state left, the local
\* should_count and the kinds of the lines logged.
StreamAccounting(S, scene_id, client_ip, client_type, byte_position, now, info1, info2, ok1, ok2) ==
    LET tracked == scene_id \in DOMAIN S.active_streams
        held_size == IF tracked THEN S.active_streams[scene_id].file_size ELSE 0
        cached_file_size == IF held_size # 0 THEN held_size ELSE info1.file_size
        count_result ==
            should_count_as_new_stream(S.stream_positions, scene_id, client_ip,
                                       byte_position, cached_file_size, now)
        S1 == [S EXCEPT !.stream_positions = count_result.positions]
        S2 == IF count_result.count THEN CountStream(S1, client_ip, now, ok1) ELSE S1
        expired == tracked /\ IsExpired(S.active_streams[scene_id], now)
        S3 == IF expired THEN ExpireStream(S2, scene_id, now) ELSE S2
        log1 == IF expired THEN <<"expired">> ELSE <<>>
        gap == now - S.active_streams[scene_id].last_seen
    IN  IF ~tracked \/ expired
        THEN IF IsRecentlyStopped(S3, scene_id, now)
             THEN [state |-> S3, should_count |-> count_result.count,
                   log |-> log1 \o <<"ignored">>]
             ELSE IF count_result.trailing
             THEN [state |-> ResumeAfterRestart(S3, scene_id, client_ip, client_type,
                                                now, info2, cached_file_size),
                   should_count |-> count_result.count,
                   log |-> log1 \o <<"resuming">>]
             ELSE [state |-> StartStream(S3, scene_id, client_ip, client_type, now,
                                         info2, ok2),
                   should_count |-> count_result.count,
                   log |-> log1
                           \o (IF LogsCancelled(S3, <<client_ip, client_type>>, scene_id)
                               THEN <<"cancelled">> ELSE <<>>)
                           \o <<"started">>]
        ELSE [state |-> TouchStream(S3, scene_id, now),
              should_count |-> count_result.count,
              log |-> IF gap > STREAM_RESUME_THRESHOLD
                      THEN <<"resumed">> ELSE <<"continue">>]

\* ui_api_streams: the scene ids the dashboard lists
ui_api_streams ==
    {s \in DOMAIN active_streams : clock - active_streams[s].last_seen < UI_STREAM_WINDOW}

\* ------------------------------------------------------------------------
\* Actions of the tracker
\* ------------------------------------------------------------------------
SetTracker(S) ==
    /\ active_streams' = S.active_streams
    /\ client_streams' = S.client_streams
    /\ recently_stopped' = S.recently_stopped
    /\ play_cooldowns' = S.play_cooldowns
    /\ stream_positions' = S.stream_positions
    /\ proxy_stats' = S.proxy_stats
    /\ stats_dirty' = S.stats_dirty
    /\ stats_last_save' = S.stats_last_save
    /\ stats_file' = S.stats_file

NoReturn == [fn |-> "none"]

\* the configuration file at startup: it has no BANNED_IPS line yet; the proxy
\* also runs without a configuration file (settings from the environment)
ConfigFiles == {[exists |-> TRUE, banned |-> <<>>]}
ConfigFilesOrNone == ConfigFiles \cup {[exists |-> FALSE, banned |-> <<>>]}

StartState(config_files) ==
    /\ clock = StartTime
    /\ in_flight = EmptyBag
    /\ served = 0
    /\ log_event = <<>>
    /\ counted_at = EmptyDict
    /\ active_streams = EmptyDict
    /\ client_streams = EmptyDict
    /\ recently_stopped = EmptyDict
    /\ play_cooldowns = EmptyDict
    /\ stream_positions = EmptyDict
    /\ proxy_stats = InitStats
    /\ stats_dirty = FALSE
    /\ stats_last_save = 0
    /\ stats_file = [exists |-> FALSE, stats |-> InitStats]
    /\ calls = 0
    /\ ret = NoReturn
    /\ ip_failures = EmptyDict
    /\ BANNED_IPS = {}
    /\ config_file \in config_files
    /\ failure_log = EmptyDict

TrackerInit == StartState(ConfigFiles)

\* time passes, up to one of the given instants
Tick(instants) ==
    /\ \E t \in instants : t > clock /\ clock' = t
    /\ UNCHANGED <<in_flight, served, log_event, counted_at, tables, fn_vars, auth_vars>>

Request(scene_id, client, byte_position) ==
    [scene_id |-> scene_id, client_ip |-> client[1], client_type |-> client[2],
     byte_position |-> byte_position]

\* lines 2281-2309: a stream request arrives and its handler awaits the
\* application, which forwards the bytes until the client has them or leaves
StreamRequest(scene_id, client, byte_position) ==
    /\ served < MaxRequests
    /\ BagCardinality(in_flight) < MaxHandlers
    /\ served' = served + 1
    /\ in_flight' = in_flight (+) SetToBag({Request(scene_id, client, byte_position)})
    /\ UNCHANGED <<clock, log_event, counted_at, tables, fn_vars, auth_vars>>

\* lines 2310-2320: the application raised something that is no client disconnect
StreamFailed(req) ==
    /\ BagIn(req, in_flight)
    /\ in_flight' = in_flight (-) SetToBag({req})
    /\ log_event' = <<"error">>
    /\ UNCHANGED <<clock, served, counted_at, tables, fn_vars, auth_vars>>

\* variant: a request answered with an error status is accounted like any other
StreamRejected_Accounted(req) ==
    /\ BagIn(req, in_flight)
    /\ \E status \in Statuses, info \in SceneInfos(req.scene_id) :
          /\ status >= 400 /\ status > 0
          /\ SetTracker(StreamAccounting(Tracker, req.scene_id, req.client_ip, req.client_type, req.byte_position, clock, info, info, TRUE, TRUE).state)
    /\ in_flight' = in_flight (-) SetToBag({req})
    /\ log_event' = <<"warning">>
    /\ UNCHANGED <<clock, served, counted_at, fn_vars, auth_vars>>

\* lines 2322-2334: the response had an error status
StreamRejected(req) ==
    /\ BagIn(req, in_flight)
    /\ \E status \in Statuses : status >= 400 /\ status > 0
    /\ in_flight' = in_flight (-) SetToBag({req})
    /\ log_event' = <<"warning">>
    /\ UNCHANGED <<clock, served, counted_at, tables, fn_vars, auth_vars>>

\* lines 2337-2465: the response ended (or the client left) and is accounted;
\* oks: the outcomes a write of the statistics file can have
StreamDone(req, oks) ==
    /\ BagIn(req, in_flight)
    /\ \E status \in Statuses, info1 \in SceneInfos(req.scene_id),
          info2 \in SceneInfos(req.scene_id), ok1 \in oks, ok2 \in oks :
          /\ ~(status >= 400 /\ status > 0)
          /\ LET r == StreamAccounting(Tracker, req.scene_id, req.client_ip,
                                       req.client_type, req.byte_position, clock,
                                       info1, info2, ok1, ok2)
             IN  /\ SetTracker(r.state)
                 /\ log_event' = r.log
                 /\ counted_at' =
                        IF r.should_count
                        THEN Put(counted_at, <<req.scene_id, req.client_ip>>, clock)
                        ELSE counted_at
    /\ in_flight' = in_flight (-) SetToBag({req})
    /\ UNCHANGED <<clock, served, fn_vars, auth_vars>>

\* endpoint_sessions on a /Stopped path whose body cannot be read (item_id
\* "none") or names an item that is neither tracked nor a scene
StopIgnored ==
    /\ \E item_id \in ItemIds \cup {"none"} :
          \/ item_id = "none"
          \/ item_id \notin DOMAIN active_streams /\ item_id \notin SceneIds
    /\ log_event' = <<"stopped">>
    /\ UNCHANGED <<clock, in_flight, served, counted_at, tables, fn_vars, auth_vars>>

\* endpoint_sessions on a /Stopped path: the stop notification of an item
StopNotification(item_id) ==
    /\ item_id \in DOMAIN active_streams \/ item_id \in SceneIds
    /\ SetTracker(mark_stream_stopped(Tracker, item_id, TRUE, clock))
    /\ log_event' = <<"stopped">>
    /\ UNCHANGED <<clock, in_flight, served, counted_at, fn_vars, auth_vars>>

Requests ==
    {Request(scene_id, client, byte_position) :
        scene_id \in SceneIds, client \in Clients, byte_position \in BytePositions}

\* the handler of an in-flight request reaches its end
Complete ==
    \E req \in Requests :
        StreamDone(req, {TRUE}) \/ StreamFailed(req) \/ StreamRejected(req)

\* the steps of the proxy when the given clients send stream requests
Serve(clients) ==
    \/ Tick(Instants)
    \/ \E scene_id \in SceneIds, client \in clients, byte_position \in BytePositions :
          StreamRequest(scene_id, client, byte_position)
    \/ \E req \in Requests : StreamFailed(req)
    \/ \E req \in Requests : StreamRejected(req)
    \/ \E req \in Requests : StreamDone(req, {TRUE})
    \/ \E item_id \in ItemIds : StopNotification(item_id)
    \/ StopIgnored

TrackerNext == Serve(Clients)

\* The tracker under stream requests, stop notifications and the passing of
\* time; the statistics file is writable.
Spec == TrackerInit /\ [][TrackerNext]_vars

\* The tracker serving one client, with the scheduling of the event loop: time
\* passes, and the response of every in-flight request ends. Nothing obliges a
\* client to send a request.
FairNext == Serve({<<"10.0.0.1", "Infuse">>})

FairSpec ==
    TrackerInit /\ [][FairNext]_vars /\ WF_vars(Tick(Instants)) /\ WF_vars(Complete)

\* The tracker around midnight: requests five minutes before the date
\* changes and after it.
DayMarks == {0, SECONDS_PER_DAY - STREAM_START_GAP, SECONDS_PER_DAY}
DayInstants == {StartTime + m : m \in DayMarks}

DayNext ==
    \/ Tick(DayInstants)
    \/ \E scene_id \in SceneIds, client \in Clients, byte_position \in BytePositions : StreamRequest(scene_id, client, byte_position)
    \/ \E req \in Requests : StreamDone(req, {TRUE})
    \/ \E item_id \in SceneIds : StopNotification(item_id)

DaySpec == TrackerInit /\ [][DayNext]_vars

\* ------------------------------------------------------------------------
\* should_count_as_new_stream alone
\* ------------------------------------------------------------------------
CountPositions == {0, 50000, 50001, 900000}
CountSizes == {0, VideoSize}

CountCall(scene_id, client_ip, byte_position, file_size) ==
    /\ calls < MaxCalls
    /\ calls' = calls + 1
    /\ LET r == should_count_as_new_stream(stream_positions, scene_id, client_ip,
                                           byte_position, file_size, clock)
       IN  /\ stream_positions' = r.positions
           /\ ret' = [fn |-> "should_count_as_new_stream", count |-> r.count,
                      trailing |-> r.trailing,
                      request |-> [scene_id |-> scene_id, client_ip |-> client_ip, byte_position |-> byte_position, file_size |-> file_size, now |-> clock]]
    /\ UNCHANGED <<clock, in_flight, served, log_event, counted_at, active_streams,
                   client_streams, recently_stopped, play_cooldowns, proxy_stats,
                   stats_dirty, stats_last_save, stats_file, auth_vars>>

CountNext ==
    \/ Tick(FineInstants)
    \/ \E client_ip \in ClientIps, byte_position \in CountPositions,
          file_size \in CountSizes :
          CountCall("scene-1", client_ip, byte_position, file_size)

CountSpec == TrackerInit /\ [][CountNext]_vars

\* ------------------------------------------------------------------------
\* record_play_count alone
\* ------------------------------------------------------------------------
PlayCall(scene_id, info, client_ip, ok) ==
    /\ calls < MaxCalls
    /\ calls' = calls + 1
    /\ SetTracker(record_play_count(Tracker, scene_id, info.title, info.performer,
                                    client_ip, info.duration, clock, ok))
    /\ ret' = NoReturn
    /\ UNCHANGED <<clock, in_flight, served, log_event, counted_at, auth_vars>>

PlayNext ==
    \/ Tick(FineInstants)
    \/ \E info \in SceneInfos("scene-1"), client_ip \in ClientIps, ok \in BOOLEAN :
          PlayCall("scene-1", info, client_ip, ok)

PlaySpec == TrackerInit /\ [][PlayNext]_vars

\* ------------------------------------------------------------------------
\* The authentication gate: failure accounting and bans
\* ------------------------------------------------------------------------
\* configured in the runs below (BAN_THRESHOLD of the configuration; 10 by default)
BAN_THRESHOLD == 3
BAN_WINDOW_MINUTES == 15
\* number of requests the gate sees in one run
MaxAuthRequests == 5
\* In the runs of the gate the clock counts ticks, this many to the second, so
\* that two requests can be less than a second apart.
TicksPerSecond == 2
\* line 2090: window_seconds
WindowTicks == BAN_WINDOW_MINUTES * 60 * TicksPerSecond

\* ticks after StartTime at which the gate sees requests: within one second,
\* whole seconds apart, and around the end of the window
AuthMarks ==
    {0, 1, TicksPerSecond, 2 * TicksPerSecond, 3 * TicksPerSecond,
     WindowTicks - 1, WindowTicks, WindowTicks + TicksPerSecond}
AuthInstants == {StartTime + m : m \in AuthMarks}
ProtectedPath == "/Items"

\* sorted(BANNED_IPS): the addresses of the set in ascending order
IpOrder == <<"10.0.0.1", "10.0.0.2">>
SortedIps(ips) == SelectSeq(IpOrder, LAMBDA ip : ip \in ips)

Gate == [ip_failures |-> ip_failures, BANNED_IPS |-> BANNED_IPS,
         config_file |-> config_file]

\* save_banned_ips_to_config; ok: whether reading and rewriting the file succeeds
save_banned_ips_to_config(G, ok) ==
    IF ~G.config_file.exists
    THEN G
    ELSE IF ok
         THEN [G EXCEPT !.config_file.banned = SortedIps(G.BANNED_IPS)]
         ELSE G

\* variant: nothing is pruned
RecentFailures_Unpruned(G, client_ip, now) ==
    IF client_ip \in DOMAIN G.ip_failures THEN G.ip_failures[client_ip] ELSE <<>>

\* lines 2093-2099: the failures of the address that are still inside the window
RecentFailures(G, client_ip, now) ==
    IF client_ip \in DOMAIN G.ip_failures
    THEN SelectSeq(G.ip_failures[client_ip], LAMBDA f : now - f[1] < WindowTicks)
    ELSE <<>>

\* variant: only a failure at the very instant of the last one is skipped
RateLimited_SameInstant(recent_failures, now) ==
    /\ recent_failures # <<>>
    /\ now - recent_failures[Len(recent_failures)][1] < 1

\* lines 2103-2109: the last failure of the list is less than a second old
RateLimited(recent_failures, now) ==
    /\ recent_failures # <<>>
    /\ now - recent_failures[Len(recent_failures)][1] < TicksPerSecond

\* variant: the ban waits for one failure more
ThresholdReached_Late(failure_count) == failure_count > BAN_THRESHOLD

\* line 2126: the threshold check
ThresholdReached(failure_count) == failure_count >= BAN_THRESHOLD

record_auth_failure(G, client_ip, path, now, ok) ==
    LET recent_failures == RecentFailures(G, client_ip, now)
        G1 == [G EXCEPT !.ip_failures = Put(@, client_ip, recent_failures)]
    IN  IF RateLimited(recent_failures, now)
        THEN G1
        ELSE LET appended == Append(recent_failures, <<now, path>>)
                 G2 == [G1 EXCEPT !.ip_failures = Put(@, client_ip, appended)]
             IN  IF ThresholdReached(Len(appended))
                 THEN LET G3 == [G2 EXCEPT !.BANNED_IPS = @ \cup {client_ip}]
                          G4 == save_banned_ips_to_config(G3, ok)
                      IN  [G4 EXCEPT !.ip_failures = Del(@, client_ip)]
                 ELSE G2

SetGate(G) ==
    /\ ip_failures' = G.ip_failures
    /\ BANNED_IPS' = G.BANNED_IPS
    /\ config_file' = G.config_file

\* AuthenticationMiddleware.__call__ on a protected path, the request carrying
\* no token or a wrong one: the failure is recorded and 401 is sent
AuthFailure(client_ip, ok) ==
    /\ calls < MaxAuthRequests
    /\ client_ip \notin BANNED_IPS
    /\ calls' = calls + 1
    /\ SetGate(record_auth_failure(Gate, client_ip, ProtectedPath, clock, ok))
    /\ failure_log' =
           IF RateLimited(RecentFailures(Gate, client_ip, clock), clock)
           THEN failure_log
           ELSE Put(failure_log, client_ip,
                    Append(IF client_ip \in DOMAIN failure_log
                           THEN failure_log[client_ip] ELSE <<>>, clock))
    /\ UNCHANGED <<clock, in_flight, served, log_event, counted_at, tables, ret>>

\* AuthenticationMiddleware.__call__ for a banned address: silent drop
BannedDrop(client_ip) ==
    /\ calls < MaxAuthRequests
    /\ client_ip \in BANNED_IPS
    /\ calls' = calls + 1
    /\ UNCHANGED <<clock, in_flight, served, log_event, counted_at, tables, ret,
                   auth_vars>>

\* history: the number of failures each address had been counted when it last
\* logged in
LoginMarks == IF ret.fn = "endpoint_authenticate_by_name" THEN ret.marks ELSE EmptyDict
FailuresLogged(client_ip) == IF client_ip \in DOMAIN failure_log THEN Len(failure_log[client_ip]) ELSE 0

\* variant: a login leaves the failure list of the address
Login_KeepsFailures(client_ip, success) ==
    /\ calls < MaxAuthRequests
    /\ client_ip \notin BANNED_IPS
    /\ calls' = calls + 1
    /\ proxy_stats' = IF success THEN [proxy_stats EXCEPT !.auth_success = @ + 1] ELSE [proxy_stats EXCEPT !.auth_failed = @ + 1]
    /\ stats_dirty' = TRUE
    /\ ret' = IF success THEN [fn |-> "endpoint_authenticate_by_name", marks |-> Put(LoginMarks, client_ip, FailuresLogged(client_ip))] ELSE ret
    /\ UNCHANGED <<clock, in_flight, served, log_event, counted_at, active_streams, client_streams, recently_stopped, play_cooldowns, stream_positions, stats_last_save, stats_file, auth_vars>>

\* endpoint_authenticate_by_name (a public path) from an address that is not
\* banned; success: whether the password matches
Login(client_ip, success) ==
    /\ calls < MaxAuthRequests
    /\ client_ip \notin BANNED_IPS
    /\ calls' = calls + 1
    /\ ret' = IF success THEN [fn |-> "endpoint_authenticate_by_name", marks |-> Put(LoginMarks, client_ip, FailuresLogged(client_ip))] ELSE ret
    /\ ip_failures' =
           IF success /\ client_ip \in DOMAIN ip_failures
           THEN Del(ip_failures, client_ip) ELSE ip_failures
    /\ proxy_stats' =
           IF success
           THEN [proxy_stats EXCEPT !.auth_success = @ + 1]
           ELSE [proxy_stats EXCEPT !.auth_failed = @ + 1]
    /\ stats_dirty' = TRUE
    /\ UNCHANGED <<clock, in_flight, served, log_event, counted_at, active_streams,
                   client_streams, recently_stopped, play_cooldowns, stream_positions,
                   stats_last_save, stats_file, BANNED_IPS, config_file,
                   failure_log>>

AuthNext ==
    \/ Tick(AuthInstants)
    \/ \E client_ip \in ClientIps, ok \in BOOLEAN : AuthFailure(client_ip, ok)
    \/ \E client_ip \in ClientIps : BannedDrop(client_ip)
    \/ \E client_ip \in ClientIps, success \in BOOLEAN : Login(client_ip, success)

\* The gate under failing requests, logins and the passing of time, with or
\* without a configuration file.
AuthSpec == StartState(ConfigFilesOrNone) /\ [][AuthNext]_vars

\* ------------------------------------------------------------------------
\* The authentication gate: one request through AuthenticationMiddleware
\* ------------------------------------------------------------------------
\* A path is the sequence of its characters, so that lower() and startswith()
\* are computed on it as the code computes them.
UpperCase == <<"A", "B", "C", "D", "E", "F", "G", "H", "I", "J", "K", "L", "M", "N", "O", "P", "Q", "R", "S", "T", "U", "V", "W", "X", "Y", "Z">>
LowerCase == <<"a", "b", "c", "d", "e", "f", "g", "h", "i", "j", "k", "l", "m", "n", "o", "p", "q", "r", "s", "t", "u", "v", "w", "x", "y", "z">>
ToLower == [c \in {UpperCase[i] : i \in DOMAIN UpperCase} |-> LowerCase[CHOOSE i \in DOMAIN UpperCase : UpperCase[i] = c]]
LowerChar(c) == IF c \in DOMAIN ToLower THEN ToLower[c] ELSE c
lower(s) == [i \in 1..Len(s) |-> LowerChar(s[i])]
startswith(s, prefix) == Len(s) >= Len(prefix) /\ SubSeq(s, 1, Len(prefix)) = prefix

PUBLIC_ENDPOINTS ==
    {<<"/">>,
     <<"/", "f", "a", "v", "i", "c", "o", "n", ".", "i", "c", "o">>,
     <<"/", "s", "y", "s", "t", "e", "m", "/", "i", "n", "f", "o", "/", "p", "u", "b", "l", "i", "c">>,
     <<"/", "s", "y", "s", "t", "e", "m", "/", "i", "n", "f", "o">>,
     <<"/", "s", "y", "s", "t", "e", "m", "/", "p", "i", "n", "g">>,
     <<"/", "u", "s", "e", "r", "s">>,
     <<"/", "u", "s", "e", "r", "s", "/", "a", "u", "t", "h", "e", "n", "t", "i", "c", "a", "t", "e", "b", "y", "n", "a", "m", "e">>,
     <<"/", "b", "r", "a", "n", "d", "i", "n", "g", "/", "c", "o", "n", "f", "i", "g", "u", "r", "a", "t", "i", "o", "n">>}
PUBLIC_PREFIXES == <<<<"/", "s", "y", "s", "t", "e", "m", "/", "i", "n", "f", "o">>>>

\* variant: the allow-list is matched against the path as it was sent
is_public_CaseSensitive(path) == path \in PUBLIC_ENDPOINTS \/ \E i \in DOMAIN PUBLIC_PREFIXES : startswith(path, PUBLIC_PREFIXES[i])

\* lines 2205-2212
is_public(path) == LET path_lower == lower(path) IN path_lower \in PUBLIC_ENDPOINTS \/ \E i \in DOMAIN PUBLIC_PREFIXES : startswith(path_lower, PUBLIC_PREFIXES[i])

\* the route of the login handler (the router matches it as written)
LoginRoute == <<"/", "U", "s", "e", "r", "s", "/", "A", "u", "t", "h", "e", "n", "t", "i", "c", "a", "t", "e", "B", "y", "N", "a", "m", "e">>
\* paths of the requests of the runs: a protected one that begins like an
\* allow-list entry, a public one in another spelling, one that is public by
\* prefix only, and the login route
ProtectedRequestPath == <<"/", "U", "s", "e", "r", "s", "/", "u", "1", "/", "I", "t", "e", "m", "s">>
RequestPaths ==
    {ProtectedRequestPath,
     <<"/", "S", "Y", "S", "T", "E", "M", "/", "P", "I", "N", "G">>,
     <<"/", "s", "y", "s", "t", "e", "m", "/", "i", "n", "f", "o", "r", "m", "a", "t", "i", "o", "n">>,
     <<"/", "U", "s", "e", "r", "s", "/", "A", "u", "t", "h", "e", "n", "t", "i", "c", "a", "t", "e", "B", "y", "N", "a", "m", "e">>}

\* the token of the session and None
ACCESS_TOKEN == "token-of-session"
None == "None"

\* A header value is kept with what the code reads off it: the text itself
\* (raw), the text after a leading "Bearer " (bearer, None without that
\* prefix), whether it contains "Token=" (has_token_field), and the first
\* match of Token="([^"]+)" in it (token_field, None without a match).
HeaderValue(raw, bearer, has_token_field, token_field) == [raw |-> raw, bearer |-> bearer, has_token_field |-> has_token_field, token_field |-> token_field]
HeaderValues ==
    {HeaderValue(ACCESS_TOKEN, None, FALSE, None),
     HeaderValue("stale-token", None, FALSE, None),
     HeaderValue("", None, FALSE, None),
     HeaderValue("Bearer token-of-session", ACCESS_TOKEN, FALSE, None),
     HeaderValue("MediaBrowser Client=\"c\", Token=\"token-of-session\"", None, TRUE, ACCESS_TOKEN),
     HeaderValue("MediaBrowser Client=\"c\", Token=\"\"", None, TRUE, None),
     HeaderValue("Basic dXNlcjpwdw==", None, FALSE, None)}

\* header names as clients send them, and key.decode().lower()
HeaderNames == {"X-Emby-Token", "X-MediaBrowser-Token", "Authorization", "X-Emby-Authorization", "User-Agent"}
LowerName(key) ==
    CASE key = "X-Emby-Token" -> "x-emby-token"
      [] key = "X-MediaBrowser-Token" -> "x-mediabrowser-token"
      [] key = "Authorization" -> "authorization"
      [] key = "X-Emby-Authorization" -> "x-emby-authorization"
      [] key = "User-Agent" -> "user-agent"

MaxHeaders == 2
Headers == HeaderNames \X HeaderValues
\* the header lists of the requests: every header name at most once
HeaderLists == {h \in UNION {[1..n -> Headers] : n \in 0..MaxHeaders} : \A i, j \in DOMAIN h : h[i][1] = h[j][1] => i = j}

TokenHeaderNames == {"x-emby-token", "x-mediabrowser-token", "authorization", "x-emby-authorization"}

\* lines 2226-2248, the body of the loop for one header the loop stops at
TokenOfHeader(key_lower, value) ==
    CASE key_lower = "x-emby-token" -> value.raw
      [] key_lower = "x-mediabrowser-token" -> value.raw
      [] key_lower = "authorization" ->
            IF value.bearer # None THEN value.bearer
            ELSE IF value.has_token_field THEN value.token_field
            ELSE None
      [] key_lower = "x-emby-authorization" -> value.token_field

\* lines 2219-2248: the loop runs over the headers in the order of the request
\* and stops at the first one that carries one of the four names
RECURSIVE extract_token(_)
extract_token(headers) ==
    IF headers = <<>> THEN None
    ELSE IF LowerName(Head(headers)[1]) \in TokenHeaderNames
         THEN TokenOfHeader(LowerName(Head(headers)[1]), Head(headers)[2])
         ELSE extract_token(Tail(headers))

\* line 2251: "token and token == ACCESS_TOKEN"
TokenValid(token) == token # None /\ token # "" /\ token = ACCESS_TOKEN

\* The request (its address, path and the token its headers yield) with what
\* the client received and what ran: status 0 stands for no response,
\* submitted counts the calls of record_auth_failure
Response(client_ip, path, headers, status, body, handler, submitted) == [fn |-> "AuthenticationMiddleware", client_ip |-> client_ip, path |-> path, token |-> extract_token(headers), status |-> status, body |-> body, handler |-> handler, submitted |-> submitted]

\* failure_log after a call of record_auth_failure
LoggedFailure(client_ip) ==
    IF RateLimited(RecentFailures(Gate, client_ip, clock), clock)
    THEN failure_log
    ELSE Put(failure_log, client_ip, Append(IF client_ip \in DOMAIN failure_log THEN failure_log[client_ip] ELSE <<>>, clock))

\* variant: a banned address is told that it is not authorized
GateDrop_Answered(client_ip, path, headers) ==
    /\ client_ip \in BANNED_IPS
    /\ ret' = Response(client_ip, path, headers, 401, "{\"error\": \"Unauthorized\"}", "none", 0)
    /\ UNCHANGED <<tables, auth_vars>>

\* lines 2200-2203
GateDrop(client_ip, path, headers) ==
    /\ client_ip \in BANNED_IPS
    /\ ret' = Response(client_ip, path, headers, 0, "", "none", 0)
    /\ UNCHANGED <<tables, auth_vars>>

\* lines 2215-2217 and 2251-2254 with a route other than the login route
GatePass(client_ip, path, headers) ==
    /\ client_ip \notin BANNED_IPS
    /\ is_public(path) \/ TokenValid(extract_token(headers))
    /\ path # LoginRoute
    /\ ret' = Response(client_ip, path, headers, 200, "route", "route", 0)
    /\ UNCHANGED <<tables, auth_vars>>

\* lines 2215-2217 and 3007-3046: the login route; pw_ok: the password matches
GateLogin(client_ip, path, headers, pw_ok) ==
    /\ client_ip \notin BANNED_IPS
    /\ is_public(path) \/ TokenValid(extract_token(headers))
    /\ path = LoginRoute
    /\ ip_failures' = IF pw_ok /\ client_ip \in DOMAIN ip_failures THEN Del(ip_failures, client_ip) ELSE ip_failures
    /\ proxy_stats' = IF pw_ok THEN [proxy_stats EXCEPT !.auth_success = @ + 1] ELSE [proxy_stats EXCEPT !.auth_failed = @ + 1]
    /\ stats_dirty' = TRUE
    /\ ret' = IF pw_ok THEN Response(client_ip, path, headers, 200, "AccessToken", "endpoint_authenticate_by_name", 0) ELSE Response(client_ip, path, headers, 401, "{\"error\": \"Invalid Token\"}", "endpoint_authenticate_by_name", 0)
    /\ UNCHANGED <<active_streams, client_streams, recently_stopped, play_cooldowns, stream_positions, stats_last_save, stats_file, BANNED_IPS, config_file, failure_log>>

\* lines 2256-2272
GateReject(client_ip, path, headers, ok) ==
    /\ client_ip \notin BANNED_IPS
    /\ ~is_public(path)
    /\ ~TokenValid(extract_token(headers))
    /\ SetGate(record_auth_failure(Gate, client_ip, path, clock, ok))
    /\ failure_log' = LoggedFailure(client_ip)
    /\ ret' = Response(client_ip, path, headers, 401, "{\"error\": \"Unauthorized\"}", "none", 1)
    /\ UNCHANGED tables

\* number of requests of one run
MaxGateRequests == 4

\* AuthenticationMiddleware.__call__ for one http request
GateRequest(client_ip, path, headers, pw_ok, ok) ==
    /\ calls < MaxGateRequests
    /\ calls' = calls + 1
    /\ \/ GateDrop(client_ip, path, headers)
       \/ GatePass(client_ip, path, headers)
       \/ GateLogin(client_ip, path, headers, pw_ok)
       \/ GateReject(client_ip, path, headers, ok)
    /\ UNCHANGED <<clock, in_flight, served, log_event, counted_at>>

\* instants of the gate requests
GateMarks == {0, TicksPerSecond, 2 * TicksPerSecond}
GateInstants == {StartTime + m : m \in GateMarks}

\* header lists of the gate requests: none, the token, a stale token, an
\* empty one, and a token header behind another header
GateHeaderLists ==
    {<<>>,
     <<<<"X-Emby-Token", HeaderValue(ACCESS_TOKEN, None, FALSE, None)>>>>,
     <<<<"X-MediaBrowser-Token", HeaderValue("stale-token", None, FALSE, None)>>>>,
     <<<<"X-Emby-Token", HeaderValue("", None, FALSE, None)>>>>,
     <<<<"User-Agent", HeaderValue("Infuse", None, FALSE, None)>>, <<"X-Emby-Authorization", HeaderValue("MediaBrowser Client=\"c\", Token=\"token-of-session\"", None, TRUE, ACCESS_TOKEN)>>>>}

GateNext ==
    \/ Tick(GateInstants)
    \/ \E client_ip \in ClientIps, path \in RequestPaths, headers \in GateHeaderLists, pw_ok \in BOOLEAN, ok \in BOOLEAN : GateRequest(client_ip, path, headers, pw_ok, ok)

\* Requests of every kind through the gate.
GateSpec == StartState(ConfigFiles) /\ [][GateNext]_vars

\* ------------------------------------------------------------------------
\* Token extraction alone
\* ------------------------------------------------------------------------
ExtractCall(headers) ==
    /\ calls < MaxCalls
    /\ calls' = calls + 1
    /\ ret' = [fn |-> "extract_token", headers |-> headers, token |-> extract_token(headers)]
    /\ UNCHANGED <<clock, in_flight, served, log_event, counted_at, tables, auth_vars>>

ExtractNext == \E headers \in HeaderLists : ExtractCall(headers)

ExtractSpec == TrackerInit /\ [][ExtractNext]_vars

\* ------------------------------------------------------------------------
\* stash_query alone
\* ------------------------------------------------------------------------
\* largest number of retries of the runs (STASH_RETRIES is 3 by default)
MaxRetries == 2
Retries == 0..MaxRetries
\* number of calls of one run
MaxStashCalls == 2

\* What one POST to the backend ends in: session.post raises (exc), or it
\* returns a response with a status and a body; the body is a JSON object
\* with data only ("data"), one with an errors list ("errors"), or no JSON.
Outcome(exc, status, body) == [exc |-> exc, status |-> status, body |-> body]
BackendStatuses == {200, 400, 499, 500}
Outcomes ==
    {Outcome(e, 0, "") : e \in {"Timeout", "ConnectionError", "Exception"}}
    \cup {Outcome(None, 200, b) : b \in {"data", "errors", "not json"}}
    \cup {Outcome(None, st, "") : st \in BackendStatuses \ {200}}

\* resp.raise_for_status() and resp.json(): the exception the try block ends
\* with, None when it reaches "return result"
Raised(o) ==
    IF o.exc # None THEN o.exc
    ELSE IF o.status >= 400 THEN "HTTPError"
    ELSE IF o.body = "not json" THEN "Exception"
    ELSE None

\* resp.json() of a response that carries JSON
Result(o) ==
    IF o.body = "errors"
    THEN [errors |-> <<"graphql error">>, data |-> "partial"]
    ELSE [data |-> "data"]

\* variant: 400 itself is not taken for a client error
IsClientError_Above400(status_code) == 400 < status_code /\ status_code < 500

\* line 2635: 400 <= e.response.status_code < 500
IsClientError(status_code) == 400 <= status_code /\ status_code < 500

\* the except clauses: whether the loop goes on to the next attempt
Continues(o) ==
    CASE Raised(o) = "Timeout" -> TRUE
      [] Raised(o) = "ConnectionError" -> TRUE
      [] Raised(o) = "HTTPError" -> ~IsClientError(o.status)
      [] Raised(o) = "Exception" -> FALSE

\* time.sleep of the except clauses, in seconds
Backoff(o, attempt, retries) ==
    IF attempt >= retries THEN 0
    ELSE CASE Raised(o) = "Timeout" -> 1 * (attempt + 1)
           [] Raised(o) = "ConnectionError" -> 2 * (attempt + 1)
           [] Raised(o) = "HTTPError" -> 1 * (attempt + 1)

\* variant: the failure is reported without a message
ErrorResult_NoMessage(last_error) == [errors |-> <<>>, data |-> EmptyDict]

\* line 2647
ErrorResult(last_error) == [errors |-> <<last_error>>, data |-> EmptyDict]

\* what a call leaves: the number of POSTs made, the seconds slept, the value
\* returned, and whether an exception left the function
Returned(attempts, slept, result) == [attempts |-> attempts, slept |-> slept, result |-> result, raised |-> FALSE]

\* lines 2600-2647: the loop from the given attempt on; outcomes[i] is what the
\* i-th POST ends in
RECURSIVE stash_query_from(_, _, _, _, _)
stash_query_from(attempt, retries, outcomes, slept, last_error) ==
    IF attempt >= retries + 1
    THEN Returned(attempt, slept, ErrorResult(last_error))
    ELSE LET o == outcomes[attempt + 1]
         IN  IF Raised(o) = None
             THEN Returned(attempt + 1, slept, Result(o))
             ELSE IF Continues(o)
                  THEN stash_query_from(attempt + 1, retries, outcomes, slept + Backoff(o, attempt, retries), Raised(o))
                  ELSE Returned(attempt + 1, slept, ErrorResult(Raised(o)))

stash_query(retries, outcomes) == stash_query_from(0, retries, outcomes, 0, None)

\* a call of stash_query; the caller is blocked while it sleeps
StashCall(retries, outcomes) ==
    /\ calls < MaxStashCalls
    /\ calls' = calls + 1
    /\ LET r == stash_query(retries, outcomes)
       IN  /\ ret' = [fn |-> "stash_query", retries |-> retries, outcomes |-> outcomes, attempts |-> r.attempts, slept |-> r.slept, result |-> r.result, raised |-> r.raised]
           /\ clock' = clock + r.slept
    /\ UNCHANGED <<in_flight, served, log_event, counted_at, tables, auth_vars>>

StashNext == \E retries \in Retries : \E outcomes \in [1..(retries + 1) -> Outcomes] : StashCall(retries, outcomes)

StashSpec == TrackerInit /\ [][StashNext]_vars

\* ------------------------------------------------------------------------
\* Statistics persistence: the operations that dirty or write the statistics
\* ------------------------------------------------------------------------
\* seconds after StartTime at which something happens, around the save interval
StatsMarks == {0, 1, STATS_SAVE_INTERVAL, STATS_SAVE_INTERVAL + 1, STATS_SAVE_INTERVAL + 2, 2 * STATS_SAVE_INTERVAL + 2}
StatsInstants == {StartTime + m : m \in StatsMarks}
\* number of operations of one run
MaxStatsCalls == 4

\* the process runs until a shutdown signal or a restart request was handled
Running == ret.fn \notin {"signal_handler", "ui_api_restart"}

StatsTick == Running /\ Tick(StatsInstants)

\* record_play_count, called for a counted stream
StatsPlay(scene_id, info, client_ip) ==
    /\ Running
    /\ calls < MaxStatsCalls
    /\ calls' = calls + 1
    /\ SetTracker(record_play_count(Tracker, scene_id, info.title, info.performer, client_ip, info.duration, clock, TRUE))
    /\ ret' = [fn |-> "record_play_count"]
    /\ UNCHANGED <<clock, in_flight, served, log_event, counted_at, auth_vars>>

\* record_auth_attempt, called by the login handler
record_auth_attempt(success) ==
    /\ Running
    /\ calls < MaxStatsCalls
    /\ calls' = calls + 1
    /\ proxy_stats' = IF success THEN [proxy_stats EXCEPT !.auth_success = @ + 1] ELSE [proxy_stats EXCEPT !.auth_failed = @ + 1]
    /\ stats_dirty' = TRUE
    /\ ret' = [fn |-> "record_auth_attempt"]
    /\ UNCHANGED <<clock, in_flight, served, log_event, counted_at, active_streams, client_streams, recently_stopped, play_cooldowns, stream_positions, stats_last_save, stats_file, auth_vars>>

\* ui_api_stats_reset (POST)
ui_api_stats_reset ==
    /\ Running
    /\ calls < MaxStatsCalls
    /\ calls' = calls + 1
    /\ SetTracker(save_proxy_stats([Tracker EXCEPT !.proxy_stats = [InitStats EXCEPT !.streams_today_date = DateOf(clock)], !.stats_dirty = TRUE], clock, TRUE))
    /\ ret' = [fn |-> "ui_api_stats_reset"]
    /\ UNCHANGED <<clock, in_flight, served, log_event, counted_at, auth_vars>>

\* signal_handler: SIGINT or SIGTERM, the graceful shutdown
signal_handler ==
    /\ Running
    /\ SetTracker(save_proxy_stats(Tracker, clock, TRUE))
    /\ ret' = [fn |-> "signal_handler"]
    /\ UNCHANGED <<clock, in_flight, served, log_event, counted_at, calls, auth_vars>>

\* ui_api_restart (POST) with the task it schedules and the end of main: the
\* shutdown event is set a second later, the servers stop, and the process
\* exits (in a container) or replaces its image (os.execv)
ui_api_restart ==
    /\ Running
    /\ ret' = [fn |-> "ui_api_restart"]
    /\ UNCHANGED <<clock, in_flight, served, log_event, counted_at, tables, calls, auth_vars>>

\* number of operations of a run of the stream counters
MaxCounterCalls == 5

\* lines 2385-2396: the counters of a request that should_count_as_new_stream
\* classified as a new stream
StatsCount(client_ip, ok) ==
    /\ calls < MaxCounterCalls
    /\ calls' = calls + 1
    /\ SetTracker(CountStream(Tracker, client_ip, clock, ok))
    /\ ret' = [fn |-> "count_stream"]
    /\ UNCHANGED <<clock, in_flight, served, log_event, counted_at, auth_vars>>

\* the stream counters under counted requests, the passing of days and the
\* reset of the statistics
CounterNext ==
    \/ Tick(DayInstants)
    \/ \E client_ip \in ClientIps, ok \in BOOLEAN : StatsCount(client_ip, ok)
    \/ ui_api_stats_reset

CounterSpec == TrackerInit /\ [][CounterNext]_vars

StatsNext ==
    \/ StatsTick
    \/ ui_api_restart
    \/ \E info \in SceneInfos("scene-1"), client_ip \in ClientIps : StatsPlay("scene-1", info, client_ip)
    \/ \E success \in BOOLEAN : record_auth_attempt(success)
    \/ ui_api_stats_reset
    \/ signal_handler

StatsSpec == TrackerInit /\ [][StatsNext]_vars

\* ------------------------------------------------------------------------
\* Listings: endpoint_items
\* ------------------------------------------------------------------------
DEFAULT_PAGE_SIZE == 50
MAX_PAGE_SIZE == 200
\* STASH_PAGE_SIZE of the saved tag filters, FIXED_PAGE_SIZE of the root groups
STASH_PAGE_SIZE == 50
FIXED_PAGE_SIZE == 50

Max(a, b) == IF a >= b THEN a ELSE b
Min(a, b) == IF a <= b THEN a ELSE b

\* The backend: whether it answers (up), the size of the collection the node
\* lists (N), and the number of saved filters of the node's mode that are not
\* sort-only (filters). The items of the collection are 1..N in the order of
\* the backend's sort; 0 is the FILTERS folder.
Backend(up, N, filters) == [up |-> up, N |-> N, filters |-> filters]
FiltersFolder == 0

\* variant: the count is known although the backend does not answer
count_query_Remembered(b) == b.N

\* stash_query for a count: the error value has no count, and .get yields 0
count_query(b) == IF b.up THEN b.N ELSE 0

\* stash_query for one page of the backend, pages counted from 1
find_page(b, page, per_page) ==
    IF b.up
    THEN [i \in 1..Max(0, Min(b.N, page * per_page) - (page - 1) * per_page) |-> (page - 1) * per_page + i]
    ELSE <<>>

\* list[a:b] of Python for 0 <= a <= b
Slice(list, a, b) == SubSeq(list, a + 1, Min(b, Len(list)))

\* lines 3620-3622
StartIndex(start_index_param) == Max(0, start_index_param)
Limit(limit_param) == Max(1, Min(IF limit_param = 0 THEN DEFAULT_PAGE_SIZE ELSE limit_param, MAX_PAGE_SIZE))

\* page = (start_index // limit) + 1 with per_page = limit
PagedByLimit(b, start_index, limit) == find_page(b, (start_index \div limit) + 1, limit)

\* has_filters of the root listings
HasFilters(b, enable_filters) == enable_filters /\ b.up /\ b.filters > 0

ListingResponse(items, total_count, start_index) == [fn |-> "endpoint_items", Items |-> items, TotalRecordCount |-> total_count, StartIndex |-> start_index, status |-> 200]

\* lines 3991-4022, 4024-4070, 4099-4144: root-scenes, root-studios, root-performers
RootListing(b, enable_filters, start_index, limit) ==
    LET has_filters == HasFilters(b, enable_filters)
        folder == IF start_index = 0 /\ has_filters THEN <<FiltersFolder>> ELSE <<>>
        total_count == IF has_filters THEN count_query(b) + 1 ELSE count_query(b)
    IN  ListingResponse(folder \o PagedByLimit(b, start_index, limit), total_count, start_index)

\* lines 4226-4228: "don't fetch more than 2 pages"
PageCapReached(current_page, stash_page) == current_page > stash_page + 1

\* lines 4217-4228: the loop that fetches pages of FIXED_PAGE_SIZE
RECURSIVE FetchMovies(_, _, _, _, _)
FetchMovies(b, fetched_movies, current_page, stash_page, wanted) ==
    IF Len(fetched_movies) >= wanted THEN fetched_movies
    ELSE LET page_movies == find_page(b, current_page, FIXED_PAGE_SIZE)
         IN  IF page_movies = <<>> THEN fetched_movies
             ELSE IF PageCapReached(current_page + 1, stash_page) THEN fetched_movies \o page_movies
             ELSE FetchMovies(b, fetched_movies \o page_movies, current_page + 1, stash_page, wanted)

\* lines 4177-4254: root-groups
GroupsListing(b, enable_filters, start_index, limit) ==
    LET has_filters == HasFilters(b, enable_filters)
        folder == IF start_index = 0 /\ has_filters THEN <<FiltersFolder>> ELSE <<>>
        total_count == IF has_filters THEN count_query(b) + 1 ELSE count_query(b)
        stash_page == (start_index \div FIXED_PAGE_SIZE) + 1
        offset_within_page == start_index % FIXED_PAGE_SIZE
        fetched_movies == FetchMovies(b, <<>>, stash_page, stash_page, offset_within_page + limit)
    IN  ListingResponse(folder \o Slice(fetched_movies, offset_within_page, offset_within_page + limit), total_count, start_index)

\* lines 3959-3964: the loop that fetches the following pages
RECURSIVE ExtendTags(_, _, _, _, _)
ExtendTags(b, tags, stash_page, limit, total_count) ==
    IF Len(tags) < limit /\ stash_page * STASH_PAGE_SIZE < total_count
    THEN LET next_tags == find_page(b, stash_page + 1, STASH_PAGE_SIZE)
         IN  ExtendTags(b, tags \o Slice(next_tags, 0, limit - Len(tags)), stash_page + 1, limit, total_count)
    ELSE tags

\* lines 3734-3753 and 3928-3984: a saved filter of mode TAGS; without the
\* backend the saved filter is not found and nothing is listed
TagFilterListing(b, start_index, limit) ==
    IF ~b.up THEN ListingResponse(<<>>, 0, start_index)
    ELSE LET stash_page == (start_index \div STASH_PAGE_SIZE) + 1
             offset_in_page == start_index % STASH_PAGE_SIZE
             total_count == count_query(b)
             all_tags == find_page(b, stash_page, STASH_PAGE_SIZE)
             tags == Slice(all_tags, offset_in_page, offset_in_page + limit)
         IN  ListingResponse(ExtendTags(b, tags, stash_page, limit, total_count), total_count, start_index)

\* lines 4072-4097 and the branches of the same shape (performer-, group-,
\* tagitem-, tags-all, tags-favorites, PersonIds, searchTerm)
ChildListing(b, start_index, limit) == ListingResponse(PagedByLimit(b, start_index, limit), count_query(b), start_index)

RootNodes == {"root-scenes", "root-studios", "root-performers", "root-groups"}
\* the nodes of the runs, one for each shape of listing code
ParentIds == {"root-scenes", "root-groups", "filter-tags-1", "studio-1"}

\* endpoint_items for a ParentId
endpoint_items(parent_id, start_index_param, limit_param, b, enable_filters) ==
    LET start_index == StartIndex(start_index_param)
        limit == Limit(limit_param)
    IN  CASE parent_id = "filter-tags-1" -> TagFilterListing(b, start_index, limit)
          [] parent_id \in {"root-scenes", "root-studios", "root-performers"} -> RootListing(b, enable_filters, start_index, limit)
          [] parent_id = "studio-1" -> ChildListing(b, start_index, limit)
          [] parent_id = "root-groups" -> GroupsListing(b, enable_filters, start_index, limit)

\* sizes of the collections: none, around one internal page, more than two pages
CollectionSizes == {0, 3, FIXED_PAGE_SIZE, FIXED_PAGE_SIZE + 1, 2 * FIXED_PAGE_SIZE + 20}
Backends == {Backend(up, N, filters) : up \in BOOLEAN, N \in CollectionSizes, filters \in {0, 1}}

\* startIndex and limit as clients send them (0: the parameter is absent)
StartIndexParams == {-1, 0, 1, 3, 40, FIXED_PAGE_SIZE, 2 * FIXED_PAGE_SIZE + 19, 2 * FIXED_PAGE_SIZE + 30}
LimitParams == {-1, 0, 1, 3, 31, 100, MAX_PAGE_SIZE + 50}

\* number of listing calls of one run
MaxListCalls == 1

\* one listing request, with the request kept beside the response
ItemsCall(parent_id, start_index_param, limit_param, b, enable_filters) ==
    /\ calls < MaxListCalls
    /\ calls' = calls + 1
    /\ ret' = [request |-> [parent_id |-> parent_id, start_index |-> StartIndex(start_index_param), limit |-> Limit(limit_param), limit_param |-> limit_param, backend |-> b, enable_filters |-> enable_filters], response |-> endpoint_items(parent_id, start_index_param, limit_param, b, enable_filters), fn |-> "endpoint_items"]
    /\ UNCHANGED <<clock, in_flight, served, log_event, counted_at, tables, auth_vars>>

ListNext == \E parent_id \in ParentIds, start_index_param \in StartIndexParams, limit_param \in LimitParams, b \in Backends, enable_filters \in BOOLEAN : ItemsCall(parent_id, start_index_param, limit_param, b, enable_filters)

ListSpec == TrackerInit /\ [][ListNext]_vars

\* ------------------------------------------------------------------------
\* A client paging through one listing
\* ------------------------------------------------------------------------
\* The client asks for offset 0 first and moves its offset forward after each
\* response, by the limit it asked for (step "limit") or by the number of
\* items it received (step "received"); it keeps what it received (seen).
SweepLimits == {1, 2, 3, 31, 100, MAX_PAGE_SIZE}
SweepSizes == {5, 2 * FIXED_PAGE_SIZE + 20}
SweepBackends == {Backend(TRUE, N, filters) : N \in SweepSizes, filters \in {0, 1}}
\* number of requests of one sweep
MaxSweepCalls == 4

SweepStart(parent_id, b, step) ==
    /\ ret.fn = "none"
    /\ ret' = [fn |-> "sweep", parent_id |-> parent_id, backend |-> b, step |-> step, offset |-> 0, seen |-> <<>>, limits |-> {}, total |-> 0, received |-> 0]
    /\ UNCHANGED <<clock, in_flight, served, log_event, counted_at, tables, calls, auth_vars>>

\* the client has all it was told there is, or the last response was empty
SweepFinished ==
    /\ ret.fn = "sweep"
    /\ ret.limits # {}
    /\ ret.offset >= ret.total \/ ret.received = 0

SweepCall(limit_param) ==
    /\ ret.fn = "sweep"
    /\ ~SweepFinished
    /\ calls < MaxSweepCalls
    /\ calls' = calls + 1
    /\ LET r == endpoint_items(ret.parent_id, ret.offset, limit_param, ret.backend, TRUE)
       IN  ret' = [ret EXCEPT !.seen = @ \o r.Items,
                              !.limits = @ \cup {limit_param},
                              !.total = r.TotalRecordCount,
                              !.received = Len(r.Items),
                              !.offset = @ + (IF ret.step = "limit" THEN Limit(limit_param) ELSE Len(r.Items))]
    /\ UNCHANGED <<clock, in_flight, served, log_event, counted_at, tables, auth_vars>>

SweepNext ==
    \/ \E parent_id \in ParentIds, b \in SweepBackends, step \in {"limit", "received"} : SweepStart(parent_id, b, step)
    \/ \E limit_param \in SweepLimits : SweepCall(limit_param)

SweepSpec == TrackerInit /\ [][SweepNext]_vars

\* ------------------------------------------------------------------------
\* The page-fetch loop of the saved TAGS filter, query by query
\* ------------------------------------------------------------------------
\* What the backend may answer to a page query: the count it reports and the
\* number of tags on the page. A failed query yields {"errors": ..., "data": {}}:
\* count 0 and no tags.
ReportedCounts == {0, 20, STASH_PAGE_SIZE, 2 * STASH_PAGE_SIZE + 20, 3 * STASH_PAGE_SIZE + 1}
PageLengths == {0, 20, STASH_PAGE_SIZE}
PageResponses == [count : ReportedCounts, tags : PageLengths]
LoopStartIndexes == {0, 40, STASH_PAGE_SIZE + 10, 4 * STASH_PAGE_SIZE}
LoopLimits == {1, 31, 2 * STASH_PAGE_SIZE, MAX_PAGE_SIZE}
\* number of listings of one run
MaxLoopRuns == 1

\* variant: the loop goes on until the page asked for is full
LoopContinues_UntilFull(tags, limit, stash_page, total_count) == tags < limit

\* line 3959: len(tags) < limit and (stash_page * STASH_PAGE_SIZE) < total_count
LoopContinues(tags, limit, stash_page, total_count) == tags < limit /\ stash_page * STASH_PAGE_SIZE < total_count

InLoop == ret.fn = "findTags" /\ ~ret.returned

\* lines 3936-3957: the first page query and the slice of its tags
FirstPage(start_index, limit, res) ==
    /\ ret.fn # "findTags"
    /\ calls < MaxLoopRuns
    /\ calls' = calls + 1
    /\ LET stash_page == (start_index \div STASH_PAGE_SIZE) + 1
           offset_in_page == start_index % STASH_PAGE_SIZE
       IN  ret' = [fn |-> "findTags", start_index |-> start_index, limit |-> limit, stash_page |-> stash_page,
                   total_count |-> res.count, tags |-> Min(Max(res.tags - offset_in_page, 0), limit),
                   queries |-> 1, empty_pages |-> IF res.tags = 0 THEN 1 ELSE 0, returned |-> FALSE]
    /\ UNCHANGED <<clock, in_flight, served, log_event, counted_at, tables, auth_vars>>

\* lines 3959-3963: one turn of the loop
NextPage(res) ==
    /\ InLoop
    /\ LoopContinues(ret.tags, ret.limit, ret.stash_page, ret.total_count)
    /\ ret' = [ret EXCEPT !.stash_page = @ + 1, !.queries = @ + 1,
                          !.tags = @ + Min(res.tags, ret.limit - @),
                          !.empty_pages = IF res.tags = 0 THEN @ + 1 ELSE @]
    /\ UNCHANGED <<clock, calls, in_flight, served, log_event, counted_at, tables, auth_vars>>

\* lines 3965-3984: the loop is left and the tags are listed
LoopExit ==
    /\ InLoop
    /\ ~LoopContinues(ret.tags, ret.limit, ret.stash_page, ret.total_count)
    /\ ret' = [ret EXCEPT !.returned = TRUE]
    /\ UNCHANGED <<clock, calls, in_flight, served, log_event, counted_at, tables, auth_vars>>

LoopStep == (\E res \in PageResponses : NextPage(res)) \/ LoopExit

LoopNext ==
    \/ \E start_index \in LoopStartIndexes, limit \in LoopLimits, res \in PageResponses : FirstPage(start_index, limit, res)
    \/ \E res \in PageResponses : NextPage(res)
    \/ LoopExit

\* the handler is synchronous code: once in the loop it goes on
LoopSpec == TrackerInit /\ [][LoopNext]_vars /\ WF_vars(LoopStep)

\* ------------------------------------------------------------------------
\* Saved filters: is_sort_only_filter and stash_get_saved_filters
\* ------------------------------------------------------------------------
\* A JSON value with its Python type: None, a str, a bool, a number, a list
\* of values, or a dict, which is a list of entries (key, value).
VNone == [type |-> "NoneType", v |-> "", items |-> <<>>]
VStr(text) == [type |-> "str", v |-> text, items |-> <<>>]
VBool(text) == [type |-> "bool", v |-> text, items |-> <<>>]
VNum(text) == [type |-> "int", v |-> text, items |-> <<>>]
VList(items) == [type |-> "list", v |-> "", items |-> items]
VDict(entries) == [type |-> "dict", v |-> "", items |-> entries]
Entry(key, value) == [key |-> key, value |-> value]

\* values of criteria: nothing, texts, booleans, numbers
LeafValues == {VNone, VStr(""), VStr("x"), VBool("False"), VBool("True"), VNum("0"), VNum("5")}

\* criteria trees: no criterion, one criterion with a value or a list of
\* values, beside sort keys, with a modifier, or below a combinator
ObjectFilterTrees ==
    {VDict(<<>>), VDict(<<Entry("sort", VStr("date"))>>), VDict(<<Entry("tags", VDict(<<Entry("value", VList(<<>>))>>))>>)}
    \cup {VDict(<<Entry("tags", VDict(<<Entry("value", leaf)>>))>>) : leaf \in LeafValues}
    \cup {VDict(<<Entry("tags", VDict(<<Entry("value", VList(<<leaf>>))>>))>>) : leaf \in LeafValues}
    \cup {VDict(<<Entry("sort", VStr("date")), Entry("per_page", VNum("40")), Entry("rating", VDict(<<Entry("value", leaf)>>))>>) : leaf \in LeafValues}
    \cup {VDict(<<Entry("AND", VDict(<<Entry("organized", VDict(<<Entry("value", leaf), Entry("direction", VStr("ASC"))>>))>>))>>) : leaf \in LeafValues}
    \cup {VDict(<<Entry("organized", VDict(<<Entry("modifier", VStr("EQUALS")), Entry("value", VBool("False"))>>))>>)}

\* json.loads of the texts the backend may send for object_filter; a text
\* that is not JSON raises
JsonTexts == {"{}", "{\"tags\": {\"value\": \"x\"}}", "{\"tags\": {\"value\": \"\"}}", "{not json"}
JsonRaises(text) == text = "{not json"
json_loads(text) ==
    CASE text = "{}" -> VDict(<<>>)
      [] text = "{\"tags\": {\"value\": \"x\"}}" -> VDict(<<Entry("tags", VDict(<<Entry("value", VStr("x"))>>))>>)
      [] text = "{\"tags\": {\"value\": \"\"}}" -> VDict(<<Entry("tags", VDict(<<Entry("value", VStr(""))>>))>>)

\* a saved filter: object_filter as the backend sends it (absent, a tree, or
\* the JSON text of one) and the q of find_filter (None: no find_filter)
ObjectFilters == {VNone} \cup ObjectFilterTrees \cup {VStr(text) : text \in JsonTexts}
SavedFilters == [object_filter : ObjectFilters, q : {None, "", "term"}]

\* bool(obj) of Python
Truthy(obj) ==
    CASE obj.type = "NoneType" -> FALSE
      [] obj.type = "str" -> obj.v # ""
      [] obj.type = "bool" -> obj.v = "True"
      [] obj.type = "int" -> obj.v # "0"
      [] obj.type \in {"list", "dict"} -> obj.items # <<>>

ControlKeys == {"page", "per_page", "sort", "direction"}

\* variant: a boolean or a number counts when it is truthy
ScalarIsMeaningful_Truthy(obj) == Truthy(obj)

\* lines 2691-2696: a str counts when it is not empty, a bool or a number always
ScalarIsMeaningful(obj) ==
    CASE obj.type = "str" -> obj.v # ""
      [] obj.type = "bool" -> TRUE
      [] obj.type = "int" -> TRUE

\* lines 2677-2697
RECURSIVE has_meaningful_filter(_)
has_meaningful_filter(obj) ==
    CASE obj.type = "NoneType" -> FALSE
      [] obj.type = "dict" -> \E i \in DOMAIN obj.items : obj.items[i].key \notin ControlKeys /\ has_meaningful_filter(obj.items[i].value)
      [] obj.type = "list" -> Len(obj.items) > 0 /\ \E i \in DOMAIN obj.items : has_meaningful_filter(obj.items[i])
      [] OTHER -> ScalarIsMeaningful(obj)

\* lines 2656-2663: object_filter after parsing
ParsedObjectFilter(saved_filter) ==
    LET object_filter == saved_filter.object_filter
    IN  IF object_filter.type = "str"
        THEN IF JsonRaises(object_filter.v) THEN VDict(<<>>) ELSE json_loads(object_filter.v)
        ELSE object_filter

\* lines 2649-2703
is_sort_only_filter(saved_filter) ==
    LET object_filter == ParsedObjectFilter(saved_filter)
    IN  IF ~Truthy(object_filter)
        THEN ~(saved_filter.q # None /\ saved_filter.q # "")
        ELSE ~has_meaningful_filter(object_filter)

\* lines 2722-2733, with the filters the backend holds for the mode
stash_get_saved_filters(filters) == SelectSeq(filters, LAMBDA f : ~is_sort_only_filter(f))

\* number of saved filters of one mode
MaxFilters == 2
\* number of calls of one run
MaxFilterCalls == 1

\* stash_get_saved_filters as the root listings call it (lines 3999-4006):
\* the filters listed and whether the FILTERS entry is shown
SavedFiltersCall(filters) ==
    /\ calls < MaxFilterCalls
    /\ calls' = calls + 1
    /\ LET saved_filters == stash_get_saved_filters(filters)
       IN  ret' = [fn |-> "stash_get_saved_filters", filters |-> filters, saved_filters |-> saved_filters, has_filters |-> Len(saved_filters) > 0]
    /\ UNCHANGED <<clock, in_flight, served, log_event, counted_at, tables, auth_vars>>

FilterNext == \E n \in 0..MaxFilters : \E filters \in [1..n -> SavedFilters] : SavedFiltersCall(filters)

FilterSpec == TrackerInit /\ [][FilterNext]_vars

\* ------------------------------------------------------------------------
\* Properties
\* ------------------------------------------------------------------------
\* the step in which the handler of request req does its stream accounting
Accounts(req) ==
    /\ BagIn(req, in_flight)
    /\ in_flight' = in_flight (-) SetToBag({req})
    /\ log_event' \notin {<<"error">>, <<"warning">>}

\* the scenes whose active entry belongs to client key k
OwnedBy(k) == {s \in DOMAIN active_streams : active_streams[s].client_key = k}

\* the step creates the active entry of scene s
Opens(s) ==
    /\ s \in DOMAIN active_streams'
    /\ active_streams'[s].started = clock
    /\ s \notin DOMAIN active_streams \/ active_streams[s].started # clock

\* C1: in every reachable state no client key (client IP + client type) owns
\* more than one active entry. (That the table holds at most one entry per
\* scene id is given by its being a dict keyed by scene id.)
C1_SingleStreamPerClient ==
    \A k \in Clients : Cardinality(OwnedBy(k)) <= 1

\* C2: when client key K has an active entry for scene A and the accounting of
\* a request from K for another scene B opens an entry for B, that step
\* removes A's entry and leaves the client table mapping K to B.
C2_SwitchCancelsPrior ==
    [][\A req \in Requests : \A A \in SceneIds \ {req.scene_id} :
          LET K == <<req.client_ip, req.client_type>>
              B == req.scene_id
          IN  (/\ Accounts(req)
               /\ A \in DOMAIN active_streams
               /\ active_streams[A].client_key = K
               /\ Opens(B))
              => /\ A \notin DOMAIN active_streams'
                 /\ K \in DOMAIN client_streams'
                 /\ client_streams'[K] = B]_vars

C4_FirstObservation ==
    [][\A client_ip \in ClientIps, byte_position \in CountPositions,
          file_size \in CountSizes :
          (/\ CountCall("scene-1", client_ip, byte_position, file_size)
           /\ <<"scene-1", client_ip>> \notin DOMAIN stream_positions)
          => LET mid_file == IF file_size > 0
                             THEN byte_position * 100 > 5 * file_size
                             ELSE byte_position > 0
             IN  /\ ret'.count = ~mid_file
                 /\ ret'.trailing = mid_file
                 /\ <<"scene-1", client_ip>> \in DOMAIN stream_positions'
                 /\ stream_positions'[<<"scene-1", client_ip>>] =
                        [last_position |-> byte_position, last_time |-> clock,
                         file_size |-> file_size]]_vars

\* the first call of a run found an offset of exactly 5% of a known size and
\* counted it as a start
C4_Witness ==
    /\ calls = 1
    /\ ret.fn = "should_count_as_new_stream"
    /\ ret.count /\ ~ret.trailing
    /\ \E k \in DOMAIN stream_positions :
          /\ stream_positions[k].last_position = 50000
          /\ stream_positions[k].file_size = VideoSize

\* C5: on every later observation of a key the request is counted iff at least
\* 30 minutes passed since the previous observation, or the offset is within
\* the first 5% of the file and at least 5 minutes passed.
C5_LaterObservation ==
    [][\A client_ip \in ClientIps, byte_position \in CountPositions,
          file_size \in CountSizes :
          (/\ CountCall("scene-1", client_ip, byte_position, file_size)
           /\ <<"scene-1", client_ip>> \in DOMAIN stream_positions)
          => LET last_info == stream_positions[<<"scene-1", client_ip>>]
                 elapsed == clock - last_info.last_time
                 size == IF file_size # 0 THEN file_size ELSE last_info.file_size
                 at_start == byte_position * 100 <= 5 * size
             IN  /\ ret'.count = (elapsed >= 1800 \/ (at_start /\ elapsed >= 300))
                 /\ ~ret'.trailing]_vars

\* the play count of a scene in a statistics record
PlayCount(stats, scene_id) ==
    IF scene_id \in DOMAIN stats.play_counts
    THEN stats.play_counts[scene_id].count ELSE 0

\* C6: a play attempt for a (scene id, client IP) that comes less than the
\* stored cooldown (duration + 1800 s of the last counted play) after that play
\* leaves the play counts and the cooldown alone; any other attempt raises the
\* scene's play count by exactly one and refreshes the cooldown (stamped now,
\* duration + 1800), the title, the performer summary and the last-played time.
C6_PlayCooldown ==
    [][\A info \in SceneInfos("scene-1"), client_ip \in ClientIps, ok \in BOOLEAN :
          PlayCall("scene-1", info, client_ip, ok) =>
            LET k == <<"scene-1", client_ip>> IN
            IF /\ k \in DOMAIN play_cooldowns
               /\ clock - play_cooldowns[k].timestamp < play_cooldowns[k].cooldown_seconds
            THEN /\ proxy_stats'.play_counts = proxy_stats.play_counts
                 /\ play_cooldowns' = play_cooldowns
            ELSE /\ "scene-1" \in DOMAIN proxy_stats'.play_counts
                 /\ proxy_stats'.play_counts["scene-1"] =
                        [count |-> PlayCount(proxy_stats, "scene-1") + 1,
                         title |-> info.title, performer |-> info.performer,
                         last_played |-> clock]
                 /\ k \in DOMAIN play_cooldowns'
                 /\ play_cooldowns'[k] =
                        [timestamp |-> clock,
                         cooldown_seconds |-> info.duration + 1800]]_vars

\* a second play was counted at the very end of the cooldown of the first, and
\* a third attempt, in between, was not
C6_Witness ==
    /\ calls = 3
    /\ PlayCount(proxy_stats, "scene-1") = 2
    /\ DOMAIN play_cooldowns = {<<"scene-1", "10.0.0.1">>}
    /\ play_cooldowns[<<"scene-1", "10.0.0.1">>].timestamp =
           StartTime + VideoDuration + 1800
    /\ proxy_stats.play_counts["scene-1"].last_played = clock

\* C7: the accounting of a request for a scene that has no active entry and
\* whose stop notification came less than 5 seconds before creates no entry,
\* cancels no stream, logs no started event and leaves the active-stream
\* table, the client table, the recently-stopped markers and the play counts
\* unchanged.
C7_TrailingAfterStopSuppressed ==
    [][\A req \in Requests :
          (/\ Accounts(req)
           /\ req.scene_id \notin DOMAIN active_streams
           /\ req.scene_id \in DOMAIN recently_stopped
           /\ clock - recently_stopped[req.scene_id] < 5)
          => /\ active_streams' = active_streams
             /\ client_streams' = client_streams
             /\ recently_stopped' = recently_stopped
             /\ proxy_stats'.play_counts = proxy_stats.play_counts
             /\ play_cooldowns' = play_cooldowns
             /\ ~InList("started", log_event')
             /\ ~InList("cancelled", log_event')
             /\ ~InList("resuming", log_event')]_vars

\* a request was ignored for a scene stopped less than 5 seconds ago, while
\* another stream is active
C7_Witness ==
    /\ log_event = <<"ignored">>
    /\ DOMAIN active_streams = {"scene-2"}
    /\ "scene-1" \in DOMAIN recently_stopped
    /\ clock - recently_stopped["scene-1"] < 5
    /\ \E client_ip \in ClientIps :
          /\ <<"scene-1", client_ip>> \in DOMAIN stream_positions
          /\ stream_positions[<<"scene-1", client_ip>>].last_time = clock
          /\ active_streams["scene-2"].client_ip = client_ip

\* C8: a stop notification for an item that is tracked, or untracked with the
\* scene- prefix, leaves the item absent from the active-stream table, removes
\* the owner's client mapping when it pointed to the item, and records a
\* recently-stopped marker for the item stamped with the current time.
C8_StopRemovesAndMarks ==
    [][\A item_id \in ItemIds :
          (/\ StopNotification(item_id)
           /\ item_id \in DOMAIN active_streams \/ item_id \in SceneIds)
          => /\ item_id \notin DOMAIN active_streams'
             /\ item_id \in DOMAIN recently_stopped'
             /\ recently_stopped'[item_id] = clock
             /\ \A k \in DOMAIN client_streams' : client_streams'[k] # item_id
             /\ \A k \in DOMAIN client_streams :
                   client_streams[k] # item_id
                   => k \in DOMAIN client_streams' /\ client_streams'[k] = client_streams[k]
             /\ \A s \in DOMAIN active_streams \ {item_id} :
                   s \in DOMAIN active_streams' /\ active_streams'[s] = active_streams[s]]_vars

\* the only request of the run started a stream, and its stop notification has
\* removed the entry and the owner's mapping and left a marker stamped now
C8_Witness ==
    /\ log_event = <<"stopped">>
    /\ served = 1
    /\ in_flight = EmptyBag
    /\ DOMAIN play_cooldowns = {<<"scene-1", "10.0.0.1">>}
    /\ active_streams = EmptyDict
    /\ client_streams = EmptyDict
    /\ "scene-1" \in DOMAIN recently_stopped
    /\ recently_stopped["scene-1"] = clock
    /\ clock = play_cooldowns[<<"scene-1", "10.0.0.1">>].timestamp + STREAM_START_GAP

\* a marker was recorded for a scene that was never tracked
C8_WitnessUntracked ==
    /\ log_event = <<"stopped">>
    /\ served = 0
    /\ "scene-2" \in DOMAIN recently_stopped
    /\ recently_stopped["scene-2"] = clock

\* the entry of scene s has not been touched for 30 minutes
Stale(s) ==
    /\ s \in DOMAIN active_streams
    /\ clock - active_streams[s].last_seen >= 1800

\* C9 as stated: an entry not touched for 30 minutes is eventually removed,
\* also when no further request for its scene arrives.
C9_TimeoutRemoves ==
    \A s \in SceneIds : Stale(s) ~> (s \notin DOMAIN active_streams)

\* C9, amended: an entry not touched for 30 minutes stays in the table while
\* only time passes and is not listed by the dashboard; the accounting of the
\* next request for its scene removes it, with its owner's client mapping when
\* that pointed to the scene, before the request is handled: after that step
\* the scene is absent or holds an entry created in that step.
C9_LazyExpiry ==
    [][/\ \A req \in Requests :
             (Accounts(req) /\ Stale(req.scene_id)) =>
               LET s == req.scene_id
                   k == active_streams[s].client_key
               IN  /\ s \in DOMAIN active_streams'
                         => active_streams'[s].started = clock
                   /\ (k \in DOMAIN client_streams' /\ client_streams'[k] = s)
                         => /\ s \in DOMAIN active_streams'
                            /\ active_streams'[s].client_key = k
                   /\ log_event'[1] = "expired"
       /\ \A s \in SceneIds :
             Stale(s) =>
               /\ s \notin ui_api_streams
               /\ clock' # clock
                     => s \in DOMAIN active_streams' /\ active_streams'[s] = active_streams[s]
      ]_vars

\* a request found the entry of its scene expired and started the stream anew
C9_Witness ==
    /\ log_event = <<"expired", "started">>
    /\ "scene-1" \in DOMAIN active_streams
    /\ active_streams["scene-1"].started = clock
    /\ clock = StartTime + 1800

\* the address has no failure less than a second old, and one more failure
\* brings its failures inside the window to the threshold
ReachesThreshold(client_ip) ==
    LET inside == IF client_ip \in DOMAIN ip_failures
                  THEN SelectSeq(ip_failures[client_ip],
                                 LAMBDA f : clock - f[1] < WindowTicks)
                  ELSE <<>>
    IN  /\ inside = <<>> \/ clock - inside[Len(inside)][1] >= TicksPerSecond
        /\ Len(inside) + 1 >= BAN_THRESHOLD

InWindow(list) == SelectSeq(list, LAMBDA f : clock - f[1] < WindowTicks)

C12_BanNeedsFullWindow ==
    [][/\ \A client_ip \in ClientIps :
             (client_ip \in BANNED_IPS' /\ client_ip \notin BANNED_IPS)
             => /\ client_ip \in DOMAIN failure_log'
                /\ LET log == failure_log'[client_ip] IN
                   /\ Len(log) >= BAN_THRESHOLD
                   /\ log[Len(log)] = clock
                   /\ Len(log) > Len(IF client_ip \in DOMAIN failure_log
                                     THEN failure_log[client_ip] ELSE <<>>)
                   /\ clock - log[Len(log) - BAN_THRESHOLD + 1] < WindowTicks
       /\ \A client_ip \in ClientIps, ok \in BOOLEAN :
             (/\ AuthFailure(client_ip, ok)
              /\ failure_log' # failure_log
              /\ client_ip \notin BANNED_IPS')
             => ip_failures'[client_ip] =
                    Append(IF client_ip \in DOMAIN ip_failures
                           THEN InWindow(ip_failures[client_ip]) ELSE <<>>,
                           <<clock, ProtectedPath>>)
      ]_vars

\* an address with failures as many as the threshold, the first of them out of
\* the window when the last came, is not banned
C12_Witness ==
    /\ clock = StartTime + WindowTicks
    /\ BANNED_IPS = {}
    /\ "10.0.0.1" \in DOMAIN failure_log
    /\ Len(failure_log["10.0.0.1"]) = BAN_THRESHOLD
    /\ failure_log["10.0.0.1"][1] = StartTime
    /\ failure_log["10.0.0.1"][BAN_THRESHOLD] = clock
    /\ Len(ip_failures["10.0.0.1"]) = BAN_THRESHOLD - 1

\* a step of the gate for one request
GateStep == calls' = calls + 1 /\ ret'.fn = "AuthenticationMiddleware"

\* C13: a request from an address of the ban set gets no response, on public
\* routes as on protected ones: nothing is sent, no route handler runs, no
\* failure is recorded, and the failure accounting stays as it was.
C13_BannedSilentDrop ==
    [][(GateStep /\ ret'.client_ip \in BANNED_IPS)
         => /\ ret'.status = 0
            /\ ret'.body = ""
            /\ ret'.handler = "none"
            /\ ret'.submitted = 0
            /\ UNCHANGED <<ip_failures, BANNED_IPS, config_file, failure_log, proxy_stats>>]_vars

\* a banned address asked for a public route and got nothing
C13_Witness ==
    /\ ret.fn = "AuthenticationMiddleware"
    /\ ret.client_ip \in BANNED_IPS
    /\ ret.path = <<"/", "S", "Y", "S", "T", "E", "M", "/", "P", "I", "N", "G">>
    /\ ret.status = 0
    /\ calls = MaxGateRequests

\* the allow-list as the specification words it: the path, letter case
\* disregarded, is one of the public endpoints or begins with the public prefix
OnAllowList(path) ==
    LET folded == lower(path)
    IN  \/ \E endpoint \in PUBLIC_ENDPOINTS : folded = endpoint
        \/ startswith(folded, <<"/", "s", "y", "s", "t", "e", "m", "/", "i", "n", "f", "o">>)

\* C14: for a request from an address that is not banned, a route handler runs
\* iff the path is on the public allow-list or the extracted token is the
\* access token; a request for a public route records no failure; a request
\* that is not let through submits exactly one failure to the accounting and
\* is answered 401 with the body {"error": "Unauthorized"}.
C14_PublicOrToken ==
    [][(GateStep /\ ret'.client_ip \notin BANNED_IPS)
         => LET r == ret'
                public == OnAllowList(r.path)
                admitted == public \/ r.token = ACCESS_TOKEN
            IN  /\ (r.handler # "none") <=> admitted
                /\ public
                     => /\ r.submitted = 0
                        /\ failure_log' = failure_log
                        /\ BANNED_IPS' = BANNED_IPS
                        /\ \A ip \in DOMAIN ip_failures' : ip \in DOMAIN ip_failures /\ ip_failures'[ip] = ip_failures[ip]
                /\ ~admitted
                     => /\ r.submitted = 1
                        /\ r.status = 401
                        /\ r.body = "{\"error\": \"Unauthorized\"}"
                        /\ \E ok \in BOOLEAN : <<ip_failures', BANNED_IPS', config_file'>> = LET G == record_auth_failure(Gate, r.client_ip, r.path, clock, ok) IN <<G.ip_failures, G.BANNED_IPS, G.config_file>>]_vars

\* a request with a stale token for a protected path was answered 401 and its
\* failure is in the list of the address
C14_Witness ==
    /\ ret.fn = "AuthenticationMiddleware"
    /\ ret.path = ProtectedRequestPath
    /\ ret.token = "stale-token"
    /\ ret.status = 401
    /\ ret.client_ip \in DOMAIN ip_failures
    /\ ip_failures[ret.client_ip] = <<<<clock, ProtectedRequestPath>>>>

\* two header lists with the same headers, in whatever order
SameHeaders(h1, h2) == Len(h1) = Len(h2) /\ {h1[i] : i \in DOMAIN h1} = {h2[i] : i \in DOMAIN h2}

\* C15: the token chosen for a request depends only on which headers are
\* present and on their values, not on the order of the headers in the
\* request: every reordering of the headers yields the same token.
C15_OrderIndependent ==
    ret.fn = "extract_token"
      => \A other \in HeaderLists : SameHeaders(other, ret.headers) => extract_token(other) = ret.token

\* the request failed authentication: the gate let it to no handler, or the
\* login handler found the password wrong (record_auth_attempt(success=False))
ClientAuthFailure ==
    \/ ret'.handler = "none"
    \/ proxy_stats'.auth_failed = proxy_stats.auth_failed + 1

\* C16: every authentication failure of a client whose address is not banned,
\* a missing or invalid token on a protected route as well as a wrong password
\* at the login route, is submitted to the failure accounting of the address
\* and answered with a 401.
C16_FailuresRecorded ==
    [][(GateStep /\ ret'.client_ip \notin BANNED_IPS /\ ClientAuthFailure)
         => ret'.status = 401 /\ ret'.submitted = 1]_vars

\* the attempts of the call that failed
Failed(i) == Raised(ret.outcomes[i]) # None

\* C17: stash_query ends after at most retries + 1 attempts, lets no exception
\* out, and when every attempt it made failed it returns an error value: a
\* non-empty errors list and empty data.
C17_BoundedAttempts ==
    ret.fn = "stash_query"
      => /\ ret.attempts <= ret.retries + 1
         /\ ~ret.raised
         /\ (\A i \in 1..ret.attempts : Failed(i))
              => /\ DOMAIN ret.result = {"errors", "data"}
                 /\ ret.result.errors # <<>>
                 /\ ret.result.data = EmptyDict

\* every one of the retries + 1 attempts was made and timed out
C17_Witness ==
    /\ ret.fn = "stash_query"
    /\ ret.retries = MaxRetries
    /\ ret.attempts = MaxRetries + 1
    /\ \A i \in 1..ret.attempts : ret.outcomes[i].exc = "Timeout"
    /\ ret.result.errors = <<"Timeout">>

\* C18: an attempt that the backend answers with a 4xx status is the last one;
\* after an attempt that timed out or could not connect another attempt is
\* made, as long as fewer than retries + 1 were made.
C18_RetryPolicy ==
    ret.fn = "stash_query"
      => \A i \in 1..ret.attempts :
            LET o == ret.outcomes[i]
            IN  /\ (o.exc = None /\ o.status >= 400 /\ o.status < 500) => ret.attempts = i
                /\ (o.exc \in {"Timeout", "ConnectionError"} /\ i < ret.retries + 1) => ret.attempts > i

\* a connection failure was retried and the retry got a 400, which ended the
\* call with attempts to spare
C18_Witness ==
    /\ ret.fn = "stash_query"
    /\ ret.retries = MaxRetries
    /\ ret.attempts = 2
    /\ ret.outcomes[1].exc = "ConnectionError"
    /\ ret.outcomes[2].status = 400
    /\ ret.slept = 2

\* C19: outside the graceful shutdown, a write of the statistics file comes at
\* least 60 seconds after the write before it (stats_last_save is the instant
\* of the last write), whichever operation made the statistics dirty.
C19_WritesDebounced ==
    [][(stats_last_save' # stats_last_save /\ stats_last_save # 0 /\ ret'.fn # "signal_handler")
         => stats_last_save' - stats_last_save >= STATS_SAVE_INTERVAL]_vars

\* C20: a change of the statistics is written within one flush interval of
\* being made. Here: when the statistics hold an unwritten change and nothing
\* happens until a later instant, that instant is at most 60 seconds later
\* (the change, made at or before the earlier instant, would else be older
\* than the interval and still unwritten).
C20_WrittenWithinInterval ==
    [][(Running /\ stats_dirty /\ clock' > clock) => clock' - clock <= STATS_SAVE_INTERVAL]_vars

\* C21: when the process has shut down gracefully, by SIGINT/SIGTERM or by the
\* restart request of the administrator, the statistics file holds the
\* statistics as they were at that moment.
C21_ShutdownFlushes ==
    ~Running => ~stats_dirty /\ stats_file.stats = proxy_stats

\* the entries of a response that come from the backend
Real(items) == SelectSeq(items, LAMBDA x : x # FiltersFolder)
\* the first n items of the collection
FirstItems(n) == [i \in 1..n |-> i]

\* C22: on every listing node, a client that sweeps the offsets from 0 in steps
\* of the limit of each call, whatever limits it uses, has received every item
\* below its offset exactly once: no duplicates and no gaps.
C22_SweepExact ==
    (ret.fn = "sweep" /\ ret.step = "limit")
      => Real(ret.seen) = FirstItems(Min(ret.offset, ret.backend.N))

\* C23: the root-groups listing holds exactly min(limit, N - offset) items of
\* the collection, for every offset and every limit of 1..MAX_PAGE_SIZE.
C23_GroupsPageComplete ==
    (ret.fn = "endpoint_items" /\ ret.request.parent_id = "root-groups" /\ ret.request.backend.up)
      => Len(Real(ret.response.Items)) = Max(0, Min(ret.request.limit, ret.request.backend.N - ret.request.start_index))

\* C24: a client pages through a root listing whose mode has enabled saved
\* filters, moving on by the number of items it received. The FILTERS entry
\* is the first item of the response for offset 0 and comes in no other
\* response, the total reported is the backend count plus one, and, here with
\* one limit throughout, the client has received the first entries of the
\* collection once each, all of them when it is done.
C24_FiltersFolderInjected ==
    (ret.fn = "sweep" /\ ret.step = "received" /\ ret.parent_id \in RootNodes /\ ret.backend.filters > 0 /\ ret.limits # {})
      => /\ ret.total = ret.backend.N + 1
         /\ \A i \in DOMAIN ret.seen : ret.seen[i] = FiltersFolder <=> i = 1
         /\ Cardinality(ret.limits) = 1
              => /\ Real(ret.seen) = FirstItems(Len(Real(ret.seen)))
                 /\ SweepFinished => Len(Real(ret.seen)) = ret.backend.N

\* C26: when the backend does not answer, a listing of a node that is backed
\* by the backend is a response of status 200 with no items and total 0.
C26_EmptyWhenBackendDown ==
    (ret.fn = "endpoint_items" /\ ~ret.request.backend.up)
      => /\ ret.response.status = 200
         /\ ret.response.Items = <<>>
         /\ ret.response.TotalRecordCount = 0

\* a root listing at offset 0 while the backend, that holds items and a saved
\* filter, does not answer
C26_Witness ==
    /\ ret.fn = "endpoint_items"
    /\ ret.request.parent_id = "root-scenes"
    /\ ret.request.start_index = 0
    /\ ret.request.enable_filters
    /\ ret.request.backend = Backend(FALSE, 3, 1)
    /\ ret.response.Items = <<>>

\* the criteria tree of a saved filter, and whether it is empty or absent
TreeOf(f) == ParsedObjectFilter(f)
TreeEmpty(f) == TreeOf(f).type = "NoneType" \/ TreeOf(f).items = <<>>
QueryEmpty(f) == f.q = None \/ f.q = ""

\* the leaf values of a tree, those under pagination/sort-control keys left out
RECURSIVE LeavesOf(_)
LeavesOf(obj) ==
    CASE obj.type = "dict" -> UNION {LeavesOf(obj.items[i].value) : i \in {j \in DOMAIN obj.items : obj.items[j].key \notin ControlKeys}}
      [] obj.type = "list" -> UNION {LeavesOf(obj.items[i]) : i \in DOMAIN obj.items}
      [] OTHER -> {obj}

\* sort-only as the specification words it: every leaf is empty or falsy
SortOnlyByFalsyLeaves(f) ==
    \/ TreeEmpty(f) /\ QueryEmpty(f)
    \/ ~TreeEmpty(f) /\ \A leaf \in LeavesOf(TreeOf(f)) : ~Truthy(leaf)

\* sort-only with booleans and numbers taken for criteria whatever their value
SortOnlyByEmptyLeaves(f) ==
    \/ TreeEmpty(f) /\ QueryEmpty(f)
    \/ ~TreeEmpty(f) /\ \A leaf \in LeavesOf(TreeOf(f)) : leaf.type = "NoneType" \/ leaf = VStr("")

\* the filters of the call that the classification takes for sort-only
Hidden(SortOnly(_)) ==
    /\ \A i \in DOMAIN ret.filters : is_sort_only_filter(ret.filters[i]) <=> SortOnly(ret.filters[i])
    /\ ret.saved_filters = SelectSeq(ret.filters, LAMBDA f : ~SortOnly(f))
    /\ ret.has_filters <=> \E i \in DOMAIN ret.filters : ~SortOnly(ret.filters[i])

\* C25: a saved filter is sort-only iff its criteria tree is empty or absent
\* and its query is empty, or its tree is not empty and every leaf value
\* outside the pagination/sort-control keys is empty or falsy; the filters
\* listed are those that are not sort-only, and the FILTERS entry is shown iff
\* there is one.
C25_SortOnlyHidden ==
    ret.fn = "stash_get_saved_filters" => Hidden(SortOnlyByFalsyLeaves)

\* C25, amended: as above, with "every leaf value is None or the empty
\* string": a boolean or a number is a criterion also when it is False or 0.
C25_SortOnlyHiddenEmptyLeaves ==
    ret.fn = "stash_get_saved_filters" => Hidden(SortOnlyByEmptyLeaves)

\* a filter that only sorts beside one with a criterion whose value is False:
\* the first is hidden, the second listed
C25_Witness ==
    /\ ret.fn = "stash_get_saved_filters"
    /\ Len(ret.filters) = 2
    /\ ret.filters[1] = [object_filter |-> VDict(<<Entry("sort", VStr("date"))>>), q |-> ""]
    /\ ret.filters[2] = [object_filter |-> VDict(<<Entry("tags", VDict(<<Entry("value", VBool("False"))>>))>>), q |-> ""]
    /\ ret.saved_filters = <<ret.filters[2]>>
    /\ ret.has_filters

\* the key of the last call of should_count_as_new_stream
CountedKey == <<ret.request.scene_id, ret.request.client_ip>>

\* C27: every call of should_count_as_new_stream, whatever it decides, leaves
\* under the (scene id, client IP) key the offset, the time and the file size
\* of that request.
C27_ObservationOverwrites ==
    ret.fn = "should_count_as_new_stream"
    => /\ CountedKey \in DOMAIN stream_positions
       /\ stream_positions[CountedKey] = [last_position |-> ret.request.byte_position, last_time |-> ret.request.now, file_size |-> ret.request.file_size]

\* C27, amended: every call leaves under the key the offset and the time of
\* the request, and its file size when that is known (not 0); a request of
\* unknown size leaves the size recorded before, and 0 when the key is new.
\* The other keys are left alone.
C27_ObservationOverwritesKnownSize ==
    [][\A client_ip \in ClientIps, byte_position \in CountPositions, file_size \in CountSizes :
          CountCall("scene-1", client_ip, byte_position, file_size)
          => LET key == <<"scene-1", client_ip>>
                 size == IF file_size # 0 \/ key \notin DOMAIN stream_positions THEN file_size ELSE stream_positions[key].file_size
             IN  /\ DOMAIN stream_positions' = DOMAIN stream_positions \cup {key}
                 /\ stream_positions'[key] = [last_position |-> byte_position, last_time |-> clock, file_size |-> size]
                 /\ \A k \in DOMAIN stream_positions \ {key} : stream_positions'[k] = stream_positions[k]]_vars

\* a call that was not counted, for a key with a known size, by a request of
\* unknown size: offset and time are the request's, the size is the one known
C27_Witness ==
    /\ ret.fn = "should_count_as_new_stream"
    /\ calls >= 2
    /\ ~ret.count
    /\ ret.request.file_size = 0
    /\ ret.request.byte_position = 900000
    /\ stream_positions[CountedKey] = [last_position |-> 900000, last_time |-> ret.request.now, file_size |-> VideoSize]

\* the accounting step of req classified it as a new stream
CountedNow(req) ==
    /\ counted_at' # counted_at
    /\ <<req.scene_id, req.client_ip>> \in DOMAIN counted_at'
    /\ counted_at'[<<req.scene_id, req.client_ip>>] = clock

\* the stream counters of the statistics
StreamCounters(stats) == <<stats.total_streams, stats.streams_today, stats.streams_today_date, stats.unique_ips_today>>

\* C28: the accounting step of a request changes the stream counters iff
\* should_count_as_new_stream returned count = true for it, whatever the
\* active-stream table and the recently-stopped marker hold; when they change,
\* the lifetime counter is one more, the daily counter is one more than it was
\* (than 0 when the date changed), and the client IP is in today's IP set.
C28_CountersFollowCount ==
    [][\A req \in Requests :
          Accounts(req)
          => IF CountedNow(req)
             THEN LET today == DateOf(clock)
                      same_day == proxy_stats.streams_today_date = today
                  IN  /\ proxy_stats'.total_streams = proxy_stats.total_streams + 1
                      /\ proxy_stats'.streams_today = (IF same_day THEN proxy_stats.streams_today ELSE 0) + 1
                      /\ proxy_stats'.streams_today_date = today
                      /\ InList(req.client_ip, proxy_stats'.unique_ips_today)
                      /\ same_day => \A i \in DOMAIN proxy_stats.unique_ips_today : InList(proxy_stats.unique_ips_today[i], proxy_stats'.unique_ips_today)
             ELSE StreamCounters(proxy_stats') = StreamCounters(proxy_stats)]_vars

\* a stream counted five minutes before midnight is resumed from the start
\* at midnight: counted again, on an entry that is active, as the first stream
\* of the new day
C28_Witness ==
    /\ clock = StartTime + SECONDS_PER_DAY
    /\ log_event = <<"resumed">>
    /\ \E k \in DOMAIN counted_at : counted_at[k] = clock
    /\ proxy_stats.total_streams = 2
    /\ proxy_stats.streams_today = 1
    /\ proxy_stats.streams_today_date = DateOf(StartTime) + 1
    /\ Len(proxy_stats.unique_ips_today) = 1

\* the path the accounting step took, from the lines it logged
TookPath(kind) == InList(kind, log_event')

\* should_count_as_new_stream flagged the request as trailing after a restart
TrailingNow(req) ==
    \E info1 \in SceneInfos(req.scene_id) :
        LET held_size == IF req.scene_id \in DOMAIN active_streams THEN active_streams[req.scene_id].file_size ELSE 0
            r == should_count_as_new_stream(stream_positions, req.scene_id, req.client_ip, req.byte_position, IF held_size # 0 THEN held_size ELSE info1.file_size, clock)
        IN  r.trailing /\ r.positions = stream_positions'

\* C29: an accounting step changes the play counts or the play cooldowns only
\* on the genuinely-new path, which is taken only for a scene with no live
\* active entry, no stop marker inside its grace window and a request not
\* flagged as trailing after a restart. The trailing-after-restart path makes
\* the active entry, owned by the requesting client, and leaves play counts
\* and cooldowns as they were; so do the resumed, continuous and suppressed
\* paths.
C29_PlaysOnlyOnNewPath ==
    [][\A req \in Requests :
          Accounts(req)
          => /\ TookPath("started")
                => /\ req.scene_id \in DOMAIN active_streams => IsExpired(active_streams[req.scene_id], clock)
                   /\ ~IsRecentlyStopped(Tracker, req.scene_id, clock)
                   /\ ~TrailingNow(req)
             /\ ~TookPath("started")
                => /\ proxy_stats'.play_counts = proxy_stats.play_counts
                   /\ play_cooldowns' = play_cooldowns
             /\ TookPath("resuming")
                => /\ TrailingNow(req)
                   /\ req.scene_id \in DOMAIN active_streams'
                   /\ active_streams'[req.scene_id].client_key = <<req.client_ip, req.client_type>>
                   /\ active_streams'[req.scene_id].client_ip = req.client_ip
                   /\ active_streams'[req.scene_id].started = clock
                   /\ client_streams'[<<req.client_ip, req.client_type>>] = req.scene_id
             /\ TookPath("started") \/ TookPath("resuming") \/ TookPath("ignored") \/ TookPath("resumed") \/ TookPath("continue")]_vars

\* after a play of scene-1 was counted, a mid-file request for scene-2 that is
\* the first of its key made the entry of scene-2 and counted no play
C29_Witness ==
    /\ log_event = <<"resuming">>
    /\ "scene-2" \in DOMAIN active_streams
    /\ active_streams["scene-2"].started = clock
    /\ DOMAIN proxy_stats.play_counts = {"scene-1"}
    /\ proxy_stats.play_counts["scene-1"].count = 1
    /\ \A k \in DOMAIN play_cooldowns : k[1] = "scene-1"

\* C30: the accounting step of a request for a scene whose active entry was
\* last seen less than 30 minutes ago changes, in the tables of active
\* streams, nothing but that entry's last-seen time, which becomes now: its
\* started time, title, owner client key and client IP, the other entries,
\* the client table and the stop markers are as before, whoever sends the
\* request. The step is logged as a resume when the gap exceeds 90 s and as
\* continuous playback otherwise.
C30_OnlyLastSeenBumped ==
    [][\A req \in Requests :
          (/\ Accounts(req)
           /\ req.scene_id \in DOMAIN active_streams
           /\ clock - active_streams[req.scene_id].last_seen < 1800)
          => LET entry == active_streams[req.scene_id] IN
             /\ active_streams' = [active_streams EXCEPT ![req.scene_id] = [entry EXCEPT !.last_seen = clock]]
             /\ active_streams'[req.scene_id].started = entry.started
             /\ active_streams'[req.scene_id].title = entry.title
             /\ active_streams'[req.scene_id].client_key = entry.client_key
             /\ active_streams'[req.scene_id].client_ip = entry.client_ip
             /\ client_streams' = client_streams
             /\ recently_stopped' = recently_stopped
             /\ log_event' = IF clock - entry.last_seen > 90 THEN <<"resumed">> ELSE <<"continue">>]_vars

\* the stream of scene-1, started by 10.0.0.1, was resumed five minutes or
\* more later by a request from 10.0.0.2: the entry still belongs to 10.0.0.1
C30_Witness ==
    /\ log_event = <<"resumed">>
    /\ "scene-1" \in DOMAIN active_streams
    /\ active_streams["scene-1"].client_ip = "10.0.0.1"
    /\ active_streams["scene-1"].last_seen = clock
    /\ active_streams["scene-1"].started < clock
    /\ <<"scene-1", "10.0.0.2">> \in DOMAIN stream_positions
    /\ stream_positions[<<"scene-1", "10.0.0.2">>].last_time = clock
    /\ <<"scene-1", "10.0.0.1">> \in DOMAIN stream_positions
    /\ stream_positions[<<"scene-1", "10.0.0.1">>].last_time < clock

\* the tables of the tracker that a request for an absent scene would leave
\* when it finds the state S
TablesAfter(S, req) ==
    {LET r == StreamAccounting(S, req.scene_id, req.client_ip, req.client_type, req.byte_position, clock, info1, info2, TRUE, TRUE)
     IN  <<r.state.active_streams, r.state.client_streams, r.state.recently_stopped, r.state.play_cooldowns, r.state.stream_positions, r.state.proxy_stats>> : info1 \in SceneInfos(req.scene_id), info2 \in SceneInfos(req.scene_id)}

\* C31: the accounting step of a request for a scene whose active entry was
\* last seen 30 minutes ago or more removes that entry and its owner's client
\* mapping, writes no stop marker, and leaves what a request for an absent
\* scene leaves: an entry of the scene that belongs to the requesting client,
\* with a fresh started time.
C31_ExpiredEntryReplaced ==
    [][\A req \in Requests :
          (/\ Accounts(req)
           /\ req.scene_id \in DOMAIN active_streams
           /\ clock - active_streams[req.scene_id].last_seen >= 1800)
          => LET old == active_streams[req.scene_id]
                 client_key == <<req.client_ip, req.client_type>>
                 cleared == [Tracker EXCEPT !.active_streams = Del(@, req.scene_id),
                                            !.client_streams = IF old.client_key \in DOMAIN @ /\ @[old.client_key] = req.scene_id THEN Del(@, old.client_key) ELSE @]
             IN  /\ \A s \in DOMAIN recently_stopped' : s \in DOMAIN recently_stopped /\ recently_stopped'[s] = recently_stopped[s]
                 /\ req.scene_id \in DOMAIN active_streams'
                 /\ active_streams'[req.scene_id].client_key = client_key
                 /\ active_streams'[req.scene_id].client_ip = req.client_ip
                 /\ active_streams'[req.scene_id].started = clock
                 /\ active_streams'[req.scene_id].last_seen = clock
                 /\ client_key \in DOMAIN client_streams' /\ client_streams'[client_key] = req.scene_id
                 /\ old.client_key # client_key => old.client_key \notin DOMAIN client_streams' \/ client_streams'[old.client_key] # req.scene_id
                 /\ <<active_streams', client_streams', recently_stopped', play_cooldowns', stream_positions', proxy_stats'>> \in TablesAfter(cleared, req)
                 /\ log_event'[1] = "expired"]_vars

\* the entry of scene-1, started by 10.0.0.1 and not seen for 30 minutes, was
\* replaced by the entry of a request from 10.0.0.2
C31_Witness ==
    /\ log_event = <<"expired", "started">>
    /\ "scene-1" \in DOMAIN active_streams
    /\ active_streams["scene-1"].client_ip = "10.0.0.2"
    /\ active_streams["scene-1"].started = clock
    /\ <<"scene-1", "10.0.0.1">> \in DOMAIN stream_positions
    /\ stream_positions[<<"scene-1", "10.0.0.1">>].last_time <= clock - 1800
    /\ \A k \in DOMAIN client_streams : k[1] = "10.0.0.2"
    /\ "scene-1" \notin DOMAIN recently_stopped

\* C32: the page-fetch loop of the saved TAGS filter ends, whatever the start
\* index, the limit, the reported total count and the pages the backend
\* answers with (empty or failed ones too); the page queries it issues after
\* the first are at most the reported total count divided by the page size.
C32_PageLoopTerminates ==
    /\ [](ret.fn = "findTags" => ret.queries - 1 <= ret.total_count \div STASH_PAGE_SIZE)
    /\ [](ret.fn = "findTags" => ret.tags <= ret.limit)
    /\ (ret.fn = "findTags") ~> (ret.fn = "findTags" /\ ret.returned)

\* a listing that got nothing but empty pages and asked for every page the
\* reported count promised before it ended
C32_Witness ==
    /\ ret.fn = "findTags"
    /\ ret.returned
    /\ ret.total_count = 3 * STASH_PAGE_SIZE + 1
    /\ ret.start_index = 0
    /\ ret.queries = 4
    /\ ret.empty_pages = 4
    /\ ret.tags = 0

\* C33: in every reachable state of the tracker every entry of the client
\* table points to a scene that has an active entry owned by that client key.
C33_ClientTablePointsToOwnEntry ==
    \A k \in DOMAIN client_streams :
        /\ client_streams[k] \in DOMAIN active_streams
        /\ active_streams[client_streams[k]].client_key = k

\* the expired entry of scene-1, started by 10.0.0.1, was taken over by
\* 10.0.0.2: the client table maps the new owner only
C33_Witness ==
    /\ log_event = <<"expired", "started">>
    /\ DOMAIN active_streams = {"scene-1"}
    /\ active_streams["scene-1"].client_key = <<"10.0.0.2", "Infuse">>
    /\ <<"scene-1", "10.0.0.1">> \in DOMAIN stream_positions
    /\ client_streams = Put(EmptyDict, <<"10.0.0.2", "Infuse">>, "scene-1")

\* C34: in every state reached from zeroed statistics by counted streams, the
\* change of the date and the reset of the statistics, streams_today is at
\* most total_streams, unique_ips_today holds no IP twice, and it holds at
\* most streams_today IPs.
C34_CountersConsistent ==
    /\ proxy_stats.streams_today <= proxy_stats.total_streams
    /\ \A i, j \in DOMAIN proxy_stats.unique_ips_today : proxy_stats.unique_ips_today[i] = proxy_stats.unique_ips_today[j] => i = j
    /\ Len(proxy_stats.unique_ips_today) <= proxy_stats.streams_today

\* a stream was counted, the statistics were reset, two clients were counted,
\* one of them twice, and then one on the next day
C34_Witness ==
    /\ calls = 5
    /\ ret.fn = "count_stream"
    /\ proxy_stats.total_streams = 3
    /\ proxy_stats.streams_today = 1
    /\ proxy_stats.streams_today_date = DateOf(StartTime) + 1
    /\ Len(proxy_stats.unique_ips_today) = 1

\* C35: a play attempt inside the cooldown of its (scene id, client IP) key
\* leaves the stored timestamp and cooldown length of the key and the
\* play-count records as they are, so the stored timestamp stays the time of
\* the last counted play; an attempt at or after that time plus the stored
\* cooldown is counted.
C35_SuppressedPlayKeepsCooldown ==
    [][\A info \in SceneInfos("scene-1"), client_ip \in ClientIps, ok \in BOOLEAN :
          (PlayCall("scene-1", info, client_ip, ok) /\ <<"scene-1", client_ip>> \in DOMAIN play_cooldowns)
          => LET last_play == play_cooldowns[<<"scene-1", client_ip>>] IN
             IF clock < last_play.timestamp + last_play.cooldown_seconds
             THEN /\ play_cooldowns' = play_cooldowns
                  /\ proxy_stats'.play_counts = proxy_stats.play_counts
             ELSE /\ proxy_stats'.play_counts["scene-1"].count = proxy_stats.play_counts["scene-1"].count + 1
                  /\ proxy_stats'.play_counts["scene-1"].last_played = clock
                  /\ play_cooldowns'[<<"scene-1", client_ip>>].timestamp = clock]_vars

\* after a counted play and two suppressed attempts, the later one 59 seconds
\* before the end of the cooldown: the cooldown still runs from the counted
\* play
C35_Witness ==
    /\ calls = 3
    /\ clock = StartTime + 1801
    /\ PlayCount(proxy_stats, "scene-1") = 1
    /\ proxy_stats.play_counts["scene-1"].last_played = StartTime
    /\ play_cooldowns = Put(EmptyDict, <<"scene-1", "10.0.0.1">>, [timestamp |-> StartTime, cooldown_seconds |-> VideoDuration + 1800])

\* C36: a successful password login from an address deletes the failure list
\* of that address; an address is banned only when, since its last successful
\* login, as many failures as the threshold asks for were counted for it.
C36_LoginClearsFailures ==
    [][\A client_ip \in ClientIps :
          /\ Login(client_ip, TRUE) => client_ip \notin DOMAIN ip_failures'
          /\ (client_ip \notin BANNED_IPS /\ client_ip \in BANNED_IPS')
             => LET before_login == IF client_ip \in DOMAIN LoginMarks THEN LoginMarks[client_ip] ELSE 0
                IN  Len(failure_log'[client_ip]) - before_login >= BAN_THRESHOLD]_vars

\* two failures, a login and two more failures of 10.0.0.1, all within four
\* seconds: four failures inside the window, and no ban
C36_Witness ==
    /\ calls = 5
    /\ "10.0.0.1" \in DOMAIN LoginMarks
    /\ LoginMarks["10.0.0.1"] = 2
    /\ FailuresLogged("10.0.0.1") = 4
    /\ clock = StartTime + 3 * TicksPerSecond
    /\ Len(ip_failures["10.0.0.1"]) = 2
    /\ BANNED_IPS = {}

\* C37: the handler of a stream request that was answered with a status of
\* 400 or more logs a warning and changes nothing in the tracker: the
\* active-stream, client, position, cooldown and stop-marker tables, the
\* stream counters and the play counts are as before.
C37_ErrorStatusNotAccounted ==
    [][\A req \in Requests :
          (/\ BagIn(req, in_flight)
           /\ in_flight' = in_flight (-) SetToBag({req})
           /\ log_event' = <<"warning">>)
          => /\ active_streams' = active_streams
             /\ client_streams' = client_streams
             /\ stream_positions' = stream_positions
             /\ play_cooldowns' = play_cooldowns
             /\ recently_stopped' = recently_stopped
             /\ proxy_stats' = proxy_stats
             /\ counted_at' = counted_at]_vars

\* while scene-1 plays for 10.0.0.1, a request of 10.0.0.2 for scene-2 was
\* answered with an error status: nothing of it is in the tables
C37_Witness ==
    /\ log_event = <<"warning">>
    /\ served = 2
    /\ in_flight = EmptyBag
    /\ DOMAIN active_streams = {"scene-1"}
    /\ active_streams["scene-1"].client_ip = "10.0.0.1"
    /\ DOMAIN stream_positions = {<<"scene-1", "10.0.0.1">>}
    /\ proxy_stats.total_streams = 1
    /\ DOMAIN client_streams = {<<"10.0.0.1", "Infuse">>}

C39_FailedWriteRetried ==
    [][\A info \in SceneInfos("scene-1"), client_ip \in ClientIps, ok \in BOOLEAN :
          (/\ PlayCall("scene-1", info, client_ip, ok)
           /\ clock - stats_last_save > STATS_SAVE_INTERVAL)
          => /\ ~InPlayCooldown(play_cooldowns, <<"scene-1", client_ip>>, clock)
                => PlayCount(proxy_stats', "scene-1") = PlayCount(proxy_stats, "scene-1") + 1
             /\ IF ok
                THEN /\ ~stats_dirty'
                     /\ stats_last_save' = clock
                     /\ stats_file' = [exists |-> TRUE, stats |-> proxy_stats']
                ELSE /\ stats_dirty'
                     /\ stats_last_save' = stats_last_save]_vars

\* the write of the first play failed and the write of an attempt one second
\* later succeeded
C39_Witness ==
    /\ calls = 2
    /\ clock = StartTime + 1
    /\ stats_last_save = clock
    /\ ~stats_dirty
    /\ stats_file = [exists |-> TRUE, stats |-> proxy_stats]
    /\ PlayCount(proxy_stats, "scene-1") = 1
    /\ proxy_stats.play_counts["scene-1"].last_played = StartTime

====
